---- MODULE Spec2Model ----
(***************************************************************************)
(* auditr: a directory tree is audited against a recorded snapshot.        *)
(*                                                                         *)
(* The module models                                                       *)
(*   - Entry and its comparison predicates            (src/src/entry.rs)   *)
(*   - the sorted merge DiffIter                      (src/src/diff.rs)    *)
(*   - the aggregator Stats with its move post-pass   (src/src/stats.rs)   *)
(*   - the snapshot store                             (src/src/index.rs)   *)
(*   - the directory scanner                          (src/src/analyze.rs) *)
(*   - the path filters                               (src/src/filter/)    *)
(*   - the commands init, update and audit            (src/src/lib.rs)     *)
(*                                                                         *)
(* These specifications share the definitions:                             *)
(*   SpecDiff   diff_iter(old, new, equal) collected into Stats, one       *)
(*              event per step, on sorted unique-key lists                 *)
(*   SpecSelf   diff_iter(X, X, |_, _| true) collected into Stats           *)
(*   SpecStats  Stats::from_iter on an arbitrary vector of events          *)
(*   SpecCmd    the commands run against a directory and its snapshot      *)
(*   SpecFault  the commands run with reads that fail                       *)
(*   SpecFilter a GlobPathFilter built from rules or loaded from a rule    *)
(*              file, and asked about paths                                *)
(*   SpecScan   analyze_dir on a tree of regular files, directories and    *)
(*              other nodes, two names with one key included               *)
(*   SpecHash   hash_file on one file, the reads split in any way          *)
(*   SpecAny    diff_iter on any two lists, sorted or not, with or without *)
(*              equal keys, and asked again after its end                  *)
(*   SpecLoad   save and load on arbitrary entry lists and arbitrary       *)
(*              record files, and update and audit started on them         *)
(***************************************************************************)
EXTENDS Integers, Sequences, FiniteSets, TLC

VARIABLES
    old_list,   \* SpecDiff: the baseline list handed to diff_iter
    new_list,   \* SpecDiff: the scanned list handed to diff_iter
    it,         \* SpecDiff: the DiffIter value (cursors, prefetched values, equal)
    emitted,    \* SpecDiff: the events DiffIter has yielded so far, in order
    cur,        \* the event the last turn of from_iter's loop matched, if any
    stats,      \* the Stats value being built
    pc,         \* position of the collecting code
    fs,         \* SpecCmd: the regular files of the directory, by path
    hash_index, \* SpecCmd: the hash record .checksums.sha256, if it exists
    meta_index, \* SpecCmd: the metadata record .checksums.meta, if it exists
    last        \* SpecCmd: what the command that ran in the last step did

pipe_vars == <<old_list, new_list, it, emitted, cur, stats, pc>>
cmd_vars == <<fs, hash_index, meta_index, last>>
vars == <<pipe_vars, cmd_vars>>

-----------------------------------------------------------------------------
(* Bounds *)

\* SpecDiff: keys (normalised paths) are 1..MaxKey
MaxKey == 3
\* SpecStats: from_iter consumes at most MaxEvents events
MaxEvents == 4
\* SpecCmd: the directory holds regular files at the paths 1..MaxPath
MaxPath == 2
MaxLines == 2

Keys == 1..MaxKey
\* modification times: 1 is the time the baseline recorded, 2 a later time
Times == {1, 2}
\* content digests; "" is "not computed"
Hashes == {"h1", "h2"}

-----------------------------------------------------------------------------
(* Option<T>: None is the empty sequence, Some(x) the one-element sequence *)

None == <<>>
Some(x) == <<x>>
IsSome(o) == o # <<>>
Unwrap(o) == o[1]

Range(s) == {s[i] : i \in DOMAIN s}

-----------------------------------------------------------------------------
(* Entry *)

\* Unicode NFC of a path.  Path 0 is the decomposed spelling of path 1; every
\* other path is already normalised.
Nfc(path) == IF path = 0 THEN 1 ELSE path

\* Entry::from_path: norm_path is derived, nothing else is computed yet
from_path(path) ==
    [path |-> path, norm_path |-> Nfc(path), hash |-> "", len |-> 0, modified |-> 0]

MkEntry(path, hash, len, mtime) ==
    [path |-> path, norm_path |-> Nfc(path), hash |-> hash, len |-> len, modified |-> mtime]

\* impl Ord for Entry: by norm_path only
Entry_cmp(a, b) ==
    IF a.norm_path < b.norm_path THEN "Less"
    ELSE IF a.norm_path = b.norm_path THEN "Equal"
    ELSE "Greater"

compare_meta(e1, e2) == e1.len = e2.len /\ e1.modified = e2.modified

compare_hash(e1, e2) == e1.hash = e2.hash

compare_hash_and_mtime(e1, e2) == e1.modified = e2.modified /\ e1.hash = e2.hash

\* the predicate F handed to diff_iter, named by the caller
EqualModes == {"compare_meta", "compare_hash_and_mtime"}

\* mutant: the closure |_, _| true answers false
ApplyEqual_never(mode, old, new) ==
    IF mode = "compare_meta" THEN compare_meta(old, new)
    ELSE IF mode = "always_true" THEN FALSE
    ELSE compare_hash_and_mtime(old, new)

\* (self.equal)(old, new); "always_true" is the closure |_, _| true
ApplyEqual(mode, old, new) ==
    IF mode = "compare_meta" THEN compare_meta(old, new)
    ELSE IF mode = "always_true" THEN TRUE
    ELSE compare_hash_and_mtime(old, new)

-----------------------------------------------------------------------------
(* diff.rs *)

Event_ADDED(new) == [kind |-> "ADDED", old |-> None, new |-> Some(new)]
Event_REMOVED(old) == [kind |-> "REMOVED", old |-> Some(old), new |-> None]
Event_UPDATED(old, new) == [kind |-> "UPDATED", old |-> Some(old), new |-> Some(new)]
Event_UNCHANGED(old, new) == [kind |-> "UNCHANGED", old |-> Some(old), new |-> Some(new)]

\* slice::Iter::next at cursor pos of list
IterVal(list, pos) == IF pos < Len(list) THEN Some(list[pos + 1]) ELSE None
IterPos(list, pos) == IF pos < Len(list) THEN pos + 1 ELSE pos

\* the iterator before diff_iter has run: nothing consumed
NewIter(olds, news, equal) ==
    [olds |-> olds, news |-> news, old_pos |-> 0, new_pos |-> 0,
     old_val |-> None, new_val |-> None, equal |-> equal]

\* mutant: the iterator is built without reading its inputs
diff_iter_lazy(olds, news, equal) ==
    [olds |-> olds, news |-> news, old_pos |-> 0, new_pos |-> 0,
     old_val |-> None, new_val |-> None, equal |-> equal]

\* diff_iter: takes the first element of each input
diff_iter(olds, news, equal) ==
    [olds |-> olds, news |-> news,
     old_pos |-> IterPos(olds, 0), new_pos |-> IterPos(news, 0),
     old_val |-> IterVal(olds, 0), new_val |-> IterVal(news, 0),
     equal |-> equal]

added_key(d, new) ==
    [event |-> Some(Event_ADDED(new)),
     iter |-> [d EXCEPT !.new_val = IterVal(d.news, d.new_pos),
                        !.new_pos = IterPos(d.news, d.new_pos)]]

removed_key(d, old) ==
    [event |-> Some(Event_REMOVED(old)),
     iter |-> [d EXCEPT !.old_val = IterVal(d.olds, d.old_pos),
                        !.old_pos = IterPos(d.olds, d.old_pos)]]

\* mutant: on equal keys only the old input moves on
same_key_keeps_new(d, old, new) ==
    [event |-> IF ApplyEqual(d.equal, old, new)
               THEN Some(Event_UNCHANGED(old, new))
               ELSE Some(Event_UPDATED(old, new)),
     iter |-> [d EXCEPT !.old_val = IterVal(d.olds, d.old_pos),
                        !.old_pos = IterPos(d.olds, d.old_pos)]]

\* mutant: the sense of the equal test is inverted
same_key_inverted(d, old, new) ==
    [event |-> IF ~ApplyEqual(d.equal, old, new)
               THEN Some(Event_UNCHANGED(old, new))
               ELSE Some(Event_UPDATED(old, new)),
     iter |-> [d EXCEPT !.old_val = IterVal(d.olds, d.old_pos),
                        !.old_pos = IterPos(d.olds, d.old_pos),
                        !.new_val = IterVal(d.news, d.new_pos),
                        !.new_pos = IterPos(d.news, d.new_pos)]]

same_key(d, old, new) ==
    [event |-> IF ApplyEqual(d.equal, old, new)
               THEN Some(Event_UNCHANGED(old, new))
               ELSE Some(Event_UPDATED(old, new)),
     iter |-> [d EXCEPT !.old_val = IterVal(d.olds, d.old_pos),
                        !.old_pos = IterPos(d.olds, d.old_pos),
                        !.new_val = IterVal(d.news, d.new_pos),
                        !.new_pos = IterPos(d.news, d.new_pos)]]

\* mutant: the Less and Greater arms are exchanged
DiffIter_next_swapped(d) ==
    IF IsSome(d.old_val) /\ IsSome(d.new_val) THEN
        LET old == Unwrap(d.old_val)
            new == Unwrap(d.new_val)
            ord == Entry_cmp(old, new)
        IN  IF ord = "Equal" THEN same_key(d, old, new)
            ELSE IF ord = "Less" THEN added_key(d, new)
            ELSE removed_key(d, old)
    ELSE IF IsSome(d.old_val) THEN removed_key(d, Unwrap(d.old_val))
    ELSE IF IsSome(d.new_val) THEN added_key(d, Unwrap(d.new_val))
    ELSE [event |-> None, iter |-> d]

\* Iterator::next for DiffIter
DiffIter_next(d) ==
    IF IsSome(d.old_val) /\ IsSome(d.new_val) THEN
        LET old == Unwrap(d.old_val)
            new == Unwrap(d.new_val)
            ord == Entry_cmp(old, new)
        IN  IF ord = "Equal" THEN same_key(d, old, new)
            ELSE IF ord = "Less" THEN removed_key(d, old)
            ELSE added_key(d, new)
    ELSE IF IsSome(d.old_val) THEN removed_key(d, Unwrap(d.old_val))
    ELSE IF IsSome(d.new_val) THEN added_key(d, Unwrap(d.new_val))
    ELSE [event |-> None, iter |-> d]

-----------------------------------------------------------------------------
(* stats.rs *)

EmptyMap == [p \in {} |-> 0]

\* HashMap::insert
MapInsert(m, k, v) == [x \in DOMAIN m \cup {k} |-> IF x = k THEN v ELSE m[x]]

\* HashMap::remove
MapRemove(m, k) == [x \in DOMAIN m \ {k} |-> m[x]]

\* the Stats literal at the head of from_iter
EmptyStats ==
    [added |-> <<>>, removed |-> <<>>, updated |-> <<>>, updated_bitrot |-> <<>>,
     unchanged |-> <<>>, moved |-> EmptyMap, total |-> 0]

\* mutant: a move alone does not count as a modification
modified_ignores_moved(s) ==
    \/ s.added # <<>>
    \/ s.removed # <<>>
    \/ s.updated # <<>>
    \/ s.updated_bitrot # <<>>

\* mutant: an unchanged file counts as a modification
modified_counts_unchanged(s) ==
    \/ s.added # <<>>
    \/ s.removed # <<>>
    \/ s.updated # <<>>
    \/ s.updated_bitrot # <<>>
    \/ DOMAIN s.moved # {}
    \/ s.unchanged # <<>>

\* Stats::modified
modified(s) ==
    \/ s.added # <<>>
    \/ s.removed # <<>>
    \/ s.updated # <<>>
    \/ s.updated_bitrot # <<>>
    \/ DOMAIN s.moved # {}

\* mutant: the guard of the bitrot arm forgets the modification time
from_iter_event_any_hash_change(s, event) ==
    IF event.kind = "ADDED" THEN
        [s EXCEPT !.added = Append(@, Unwrap(event.new)), !.total = @ + 1]
    ELSE IF event.kind = "REMOVED" THEN
        [s EXCEPT !.removed = Append(@, Unwrap(event.old))]
    ELSE IF /\ event.kind = "UPDATED"
            /\ ~compare_hash(Unwrap(event.old), Unwrap(event.new)) THEN
        [s EXCEPT !.updated_bitrot = Append(@, Unwrap(event.new)), !.total = @ + 1]
    ELSE IF event.kind = "UPDATED" THEN
        [s EXCEPT !.updated = Append(@, Unwrap(event.new)), !.total = @ + 1]
    ELSE
        [s EXCEPT !.unchanged = Append(@, Unwrap(event.old)), !.total = @ + 1]

\* mutant: an Unchanged event retains its new side
from_iter_event_keeps_new(s, event) ==
    IF event.kind = "ADDED" THEN
        [s EXCEPT !.added = Append(@, Unwrap(event.new)), !.total = @ + 1]
    ELSE IF event.kind = "REMOVED" THEN
        [s EXCEPT !.removed = Append(@, Unwrap(event.old))]
    ELSE IF /\ event.kind = "UPDATED"
            /\ Unwrap(event.old).modified = Unwrap(event.new).modified
            /\ ~compare_hash(Unwrap(event.old), Unwrap(event.new)) THEN
        [s EXCEPT !.updated_bitrot = Append(@, Unwrap(event.new)), !.total = @ + 1]
    ELSE IF event.kind = "UPDATED" THEN
        [s EXCEPT !.updated = Append(@, Unwrap(event.new)), !.total = @ + 1]
    ELSE
        [s EXCEPT !.unchanged = Append(@, Unwrap(event.new)), !.total = @ + 1]

\* mutant: a Removed event is counted in total like every other event
from_iter_event_counts_removed(s, event) ==
    IF event.kind = "ADDED" THEN
        [s EXCEPT !.added = Append(@, Unwrap(event.new)), !.total = @ + 1]
    ELSE IF event.kind = "REMOVED" THEN
        [s EXCEPT !.removed = Append(@, Unwrap(event.old)), !.total = @ + 1]
    ELSE IF /\ event.kind = "UPDATED"
            /\ Unwrap(event.old).modified = Unwrap(event.new).modified
            /\ ~compare_hash(Unwrap(event.old), Unwrap(event.new)) THEN
        [s EXCEPT !.updated_bitrot = Append(@, Unwrap(event.new)), !.total = @ + 1]
    ELSE IF event.kind = "UPDATED" THEN
        [s EXCEPT !.updated = Append(@, Unwrap(event.new)), !.total = @ + 1]
    ELSE
        [s EXCEPT !.unchanged = Append(@, Unwrap(event.old)), !.total = @ + 1]

\* the body of the loop of from_iter: one event matched
from_iter_event(s, event) ==
    IF event.kind = "ADDED" THEN
        [s EXCEPT !.added = Append(@, Unwrap(event.new)), !.total = @ + 1]
    ELSE IF event.kind = "REMOVED" THEN
        [s EXCEPT !.removed = Append(@, Unwrap(event.old))]
    ELSE IF /\ event.kind = "UPDATED"
            /\ Unwrap(event.old).modified = Unwrap(event.new).modified
            /\ ~compare_hash(Unwrap(event.old), Unwrap(event.new)) THEN
        [s EXCEPT !.updated_bitrot = Append(@, Unwrap(event.new)), !.total = @ + 1]
    ELSE IF event.kind = "UPDATED" THEN
        [s EXCEPT !.updated = Append(@, Unwrap(event.new)), !.total = @ + 1]
    ELSE
        [s EXCEPT !.unchanged = Append(@, Unwrap(event.old)), !.total = @ + 1]

\* mutant: an earlier removed entry keeps its place in the map
RECURSIVE RemovedByHash_keeps_first(_, _)
RemovedByHash_keeps_first(removed, m) ==
    IF removed = <<>> THEN m
    ELSE RemovedByHash_keeps_first(
             Tail(removed),
             IF Head(removed).hash \in DOMAIN m THEN m
             ELSE MapInsert(m, Head(removed).hash, Head(removed)))

\* compute_moved, first statement: hash -> removed entry, collected in list
\* order, so a later entry replaces an earlier one with the same hash
RECURSIVE RemovedByHash(_, _)
RemovedByHash(removed, m) ==
    IF removed = <<>> THEN m
    ELSE RemovedByHash(Tail(removed), MapInsert(m, Head(removed).hash, Head(removed)))

\* mutant: a removed entry that was matched stays in the map
RECURSIVE MatchAdded_keeps_entry(_, _, _, _)
MatchAdded_keeps_entry(added, map, moved, kept) ==
    IF added = <<>> THEN [moved |-> moved, added |-> kept]
    ELSE LET a == Head(added)
         IN  IF a.hash \in DOMAIN map
             THEN MatchAdded_keeps_entry(Tail(added), map,
                                         MapInsert(moved, map[a.hash].path, a), kept)
             ELSE MatchAdded_keeps_entry(Tail(added), map, moved, Append(kept, a))

\* compute_moved, first loop: over self.added with the map, self.moved and
\* the rebuilt added list as loop state
RECURSIVE MatchAdded(_, _, _, _)
MatchAdded(added, map, moved, kept) ==
    IF added = <<>> THEN [moved |-> moved, added |-> kept]
    ELSE LET a == Head(added)
         IN  IF a.hash \in DOMAIN map
             THEN MatchAdded(Tail(added), MapRemove(map, a.hash),
                             MapInsert(moved, map[a.hash].path, a), kept)
             ELSE MatchAdded(Tail(added), map, moved, Append(kept, a))

\* mutant: the removed list is not rebuilt
KeepRemoved_all(removed, moved) == removed

\* compute_moved, second loop: the removed entries whose path is no key of moved
KeepRemoved(removed, moved) ==
    SelectSeq(removed, LAMBDA r : r.path \notin DOMAIN moved)

\* mutant: self.added is not replaced by the rebuilt list
compute_moved_keeps_added(s) ==
    LET m == MatchAdded(s.added, RemovedByHash(s.removed, EmptyMap), s.moved, <<>>)
    IN  [s EXCEPT !.moved = m.moved,
                  !.removed = KeepRemoved(s.removed, m.moved)]

compute_moved(s) ==
    LET m == MatchAdded(s.added, RemovedByHash(s.removed, EmptyMap), s.moved, <<>>)
    IN  [s EXCEPT !.moved = m.moved,
                  !.added = m.added,
                  !.removed = KeepRemoved(s.removed, m.moved)]

\* let stats: Stats = it.collect(): from_iter drains the iterator, then runs
\* the post-pass
RECURSIVE Drain(_, _)
Drain(d, s) ==
    LET r == DiffIter_next(d)
    IN  IF IsSome(r.event) THEN Drain(r.iter, from_iter_event(s, Unwrap(r.event)))
        ELSE s

collect(d) == compute_moved(Drain(d, EmptyStats))

\* mutant: the updated entries are left out of the new state
iter_new_drops_updated(s, mv) ==
    s.added \o s.unchanged \o s.updated_bitrot
    \o [i \in DOMAIN mv |-> s.moved[mv[i]]]

\* mutant: the chain starts with unchanged
iter_new_unchanged_first(s, mv) ==
    s.unchanged \o s.added \o s.updated \o s.updated_bitrot
    \o [i \in DOMAIN mv |-> s.moved[mv[i]]]

\* Stats::iter_new: added, unchanged, updated, updated_bitrot, then the values
\* of moved in the order mv in which the HashMap happens to yield its keys
iter_new(s, mv) ==
    s.added \o s.unchanged \o s.updated \o s.updated_bitrot
    \o [i \in DOMAIN mv |-> s.moved[mv[i]]]

\* the orders in which a HashMap with the key set K can be walked
KeyOrders(K) ==
    {o \in [1..Cardinality(K) -> K] : \A i, j \in DOMAIN o : i # j => o[i] # o[j]}

-----------------------------------------------------------------------------
(* The directory *)

Paths == 1..MaxPath
\* file contents: "x" and "y" have the same length, "zz" is longer
Contents == {"x", "y", "zz"}
\* a regular file: what it holds and when it was last modified
Files == [content : Contents, mtime : Times]

\* Sha256 of a content, as hash_file returns it: injective, never empty
HashOf(content) ==
    IF content = "x" THEN "h1" ELSE IF content = "y" THEN "h2" ELSE "h3"

\* fs::metadata(path).len()
LenOf(content) == IF content = "zz" THEN 2 ELSE 1

EmptyDir == [p \in Paths |-> None]

\* the names of the two records, as paths no regular file has
HASH_INDEX_NAME == -1
META_INDEX_NAME == -2

Err == [ok |-> FALSE]
Ok(v) == [ok |-> TRUE, val |-> v]

\* Entry::update_meta
update_meta(e, dir) ==
    [e EXCEPT !.len = LenOf(Unwrap(dir[e.path]).content),
              !.modified = Unwrap(dir[e.path]).mtime]

\* mutant: the file is hashed whether or not a hash is known
update_hash_opens_always(e, force) == TRUE

\* Entry::update_hash calls hash_file, which opens the file, reads it and
\* reports every chunk read to the progress callback
update_hash_opens(e, force) == force \/ e.hash = ""

\* Entry::update_hash
update_hash(e, dir, force) ==
    IF update_hash_opens(e, force)
    THEN [e EXCEPT !.hash = HashOf(Unwrap(dir[e.path]).content)]
    ELSE e

\* sort_unstable of a list whose keys are pairwise distinct
RECURSIVE SortEntries(_)
SortEntries(list) ==
    IF list = <<>> THEN <<>>
    ELSE LET i == CHOOSE x \in DOMAIN list :
                      \A y \in DOMAIN list : list[x].norm_path <= list[y].norm_path
         IN  <<list[i]>>
             \o SortEntries([j \in 1..(Len(list) - 1) |->
                                IF j < i THEN list[j] ELSE list[j + 1]])

RECURSIVE SeqOfSet(_)
SeqOfSet(S) ==
    IF S = {} THEN <<>>
    ELSE LET x == CHOOSE y \in S : TRUE IN <<x>> \o SeqOfSet(S \ {x})

-----------------------------------------------------------------------------
(* filter/mod.rs *)

\* DefaultPathFilter::matches: everything but the two records
DefaultPathFilter_matches(p) == p \notin {HASH_INDEX_NAME, META_INDEX_NAME}

-----------------------------------------------------------------------------
(* filter/globfilter.rs.  A line of the rule file, a pattern and a relative
   path are sequences of characters; the names of the hash record, the
   metadata record and the rule file are written as the single characters
   "H", "M" and "I". *)

MaxRules == 2

\* glob::Pattern::new: a pattern with an unclosed bracket is refused
Pattern_new(text) ==
    IF \E i \in DOMAIN text : text[i] = "[" THEN Err ELSE Ok(text)

\* glob::Pattern::matches_path with the default options: "*" stands for any
\* run of characters, separators included, "**/" for any run of directories,
\* every other character for itself
RECURSIVE matches_path(_, _)
matches_path(pattern, str) ==
    IF pattern = <<>> THEN str = <<>>
    ELSE IF Head(pattern) = "*"
    THEN \E k \in 0..Len(str) :
            matches_path(Tail(pattern), SubSeq(str, k + 1, Len(str)))
    ELSE IF Head(pattern) = "**/"
    THEN \/ matches_path(Tail(pattern), str)
         \/ \E k \in DOMAIN str :
               /\ str[k] = "/"
               /\ matches_path(Tail(pattern), SubSeq(str, k + 1, Len(str)))
    ELSE /\ str # <<>>
         /\ Head(str) = Head(pattern)
         /\ matches_path(Tail(pattern), Tail(str))

\* GlobRule::new
GlobRule_new(pattern, include) ==
    LET pat == Pattern_new(pattern)
    IN  IF pat.ok THEN Ok([pattern |-> pat.val, include |-> include]) ELSE Err

\* TryFrom<&str> for GlobRule: a leading "!" marks an include rule
GlobRule_try_from(value) ==
    IF value # <<>> /\ Head(value) = "!"
    THEN GlobRule_new(Tail(value), TRUE)
    ELSE GlobRule_new(value, FALSE)

\* DEFAULT_RULES: the two records and the rule file are excluded
DEFAULT_RULES ==
    <<[pattern |-> <<"H">>, include |-> FALSE],
      [pattern |-> <<"M">>, include |-> FALSE],
      [pattern |-> <<"I">>, include |-> FALSE]>>

\* str::trim().is_empty()
IsBlank(line) == \A i \in DOMAIN line : line[i] = " "

\* line_contains_filter
line_contains_filter(line) ==
    ~(line # <<>> /\ Head(line) = "#") /\ ~IsBlank(line)

\* mutant: the rules of the file come before the built-in ones
load_rules_file_first(lines) ==
    LET kept == SelectSeq(lines, line_contains_filter)
        rules == [i \in DOMAIN kept |-> GlobRule_try_from(kept[i])]
    IN  IF \E i \in DOMAIN rules : ~rules[i].ok THEN Err
        ELSE Ok([i \in DOMAIN rules |-> rules[i].val] \o DEFAULT_RULES)

\* GlobRule::load_rules on a rule file with these lines
load_rules(lines) ==
    LET kept == SelectSeq(lines, line_contains_filter)
        rules == [i \in DOMAIN kept |-> GlobRule_try_from(kept[i])]
    IN  IF \E i \in DOMAIN rules : ~rules[i].ok THEN Err
        ELSE Ok(DEFAULT_RULES \o [i \in DOMAIN rules |-> rules[i].val])

\* GlobPathFilter::new
GlobPathFilter_new(root, rules, include_by_default) ==
    [rules |-> rules, root |-> root, include_by_default |-> include_by_default]

\* GlobPathFilter::load_from_path
load_from_path(root, lines, include_by_default) ==
    LET rules == load_rules(lines)
    IN  IF rules.ok THEN Ok(GlobPathFilter_new(root, rules.val, include_by_default))
        ELSE Err

\* Path::strip_prefix: a path is a sequence of components
strip_prefix(p, base) ==
    IF Len(base) <= Len(p) /\ SubSeq(p, 1, Len(base)) = base
    THEN Some(SubSeq(p, Len(base) + 1, Len(p)))
    ELSE None

\* the characters of a relative path, its components joined by "/"
RECURSIVE PathText(_)
PathText(components) ==
    IF components = <<>> THEN <<>>
    ELSE IF Len(components) = 1 THEN <<components[1]>>
    ELSE <<components[1], "/">> \o PathText(Tail(components))

\* mutant: the last rule that matches decides
RECURSIVE find_last(_, _)
find_last(rules, text) ==
    IF rules = <<>> THEN None
    ELSE IF matches_path(rules[Len(rules)].pattern, text) THEN Some(rules[Len(rules)])
    ELSE find_last(SubSeq(rules, 1, Len(rules) - 1), text)

\* Iterator::find
RECURSIVE find(_, _)
find(rules, text) ==
    IF rules = <<>> THEN None
    ELSE IF matches_path(Head(rules).pattern, text) THEN Some(Head(rules))
    ELSE find(Tail(rules), text)

\* GlobPathFilter::matches
GlobPathFilter_matches(filter, p) ==
    LET rel_path == strip_prefix(p, filter.root)
    IN  IF IsSome(rel_path)
        THEN LET rule == find(filter.rules, PathText(Unwrap(rel_path)))
             IN  IF IsSome(rule) THEN Unwrap(rule).include
                 ELSE filter.include_by_default
        ELSE FALSE

-----------------------------------------------------------------------------
(* analyze.rs *)

\* what the walk of the directory finds: the regular files and the records
Walk(dir, hi, mi) ==
    {p \in Paths : IsSome(dir[p])}
    \cup (IF IsSome(hi) THEN {HASH_INDEX_NAME} ELSE {})
    \cup (IF IsSome(mi) THEN {META_INDEX_NAME} ELSE {})

\* mutant: the scan hashes every file, asked to or not
Scanned_always_hashes(dir, p, compute_meta, compute_hash) ==
    LET e0 == from_path(p)
        e1 == IF compute_meta THEN update_meta(e0, dir) ELSE e0
    IN  update_hash(e1, dir, TRUE)

\* the entry analyze_dir builds for one file
Scanned(dir, p, compute_meta, compute_hash) ==
    LET e0 == from_path(p)
        e1 == IF compute_meta THEN update_meta(e0, dir) ELSE e0
    IN  IF compute_hash THEN update_hash(e1, dir, TRUE) ELSE e1

analyze_dir(dir, hi, mi, compute_meta, compute_hash) ==
    SortEntries(SeqOfSet({Scanned(dir, p, compute_meta, compute_hash) :
                             p \in {q \in Walk(dir, hi, mi) :
                                       DefaultPathFilter_matches(q)}}))

\* what can go wrong with the reads of one run: the read of the directory
\* itself fails, the metadata of a file cannot be read, a file cannot be
\* opened or read for hashing (a file deleted after it was listed is one of
\* these); order is the order in which the walk visits the paths.  The first
\* read that fails ends the run, so a run meets one failure at most.
Faults ==
    {io \in [walk : BOOLEAN, meta : SUBSET Paths, hash : SUBSET Paths,
             order : KeyOrders(Paths)] :
        Cardinality(io.meta) + Cardinality(io.hash) + (IF io.walk THEN 1 ELSE 0) <= 1}

NoFault ==
    [walk |-> FALSE, meta |-> {}, hash |-> {},
     order |-> CHOOSE o \in KeyOrders(Paths) : \A i \in DOMAIN o : o[i] = i]

\* the elements of seq that come before its first element in bad
Before(seq, bad) ==
    {seq[i] : i \in {j \in DOMAIN seq : \A k \in 1..j : seq[k] \notin bad}}

\* analyze_dir with its reads failing as io says: the first failing read ends
\* the walk with its error (entry?, update_meta(..)?, update_hash(..)?)
analyze_dir_io(dir, hi, mi, compute_meta, compute_hash, io) ==
    LET kept == {q \in Walk(dir, hi, mi) : DefaultPathFilter_matches(q)}
        bad == kept \cap ((IF compute_meta THEN io.meta ELSE {})
                          \cup (IF compute_hash THEN io.hash ELSE {}))
        visited == SelectSeq(io.order, LAMBDA q : q \in kept)
    IN  IF io.walk THEN [ok |-> FALSE, hashed |-> {}]
        ELSE IF bad # {}
        THEN [ok |-> FALSE,
              hashed |-> IF compute_hash THEN Before(visited, bad) ELSE {}]
        ELSE [ok |-> TRUE,
              val |-> analyze_dir(dir, hi, mi, compute_meta, compute_hash),
              hashed |-> IF compute_hash THEN kept ELSE {}]

\* total_file_size: a walk that reads the metadata only
total_file_size_io(dir, hi, mi, io) ==
    analyze_dir_io(dir, hi, mi, TRUE, FALSE, io)

-----------------------------------------------------------------------------
(* index.rs *)

\* mutant: only a complete snapshot counts as existing
index_exists_both(hi, mi) == IsSome(hi) /\ IsSome(mi)

index_exists(hi, mi) == IsSome(hi) \/ IsSome(mi)

\* a file name that contains a line feed, and what stands before the line
\* feed in it
NewlinePath == 9
NewlineHead == 8

\* the lines a reader finds where writeln! has put one line: a path that
\* contains a line feed ends the line early and leaves its rest on a line of
\* its own
LinesOf(line) ==
    IF line.path = NewlinePath
    THEN <<[line EXCEPT !.path = NewlineHead], [text |-> "rest"]>>
    ELSE <<line>>

RECURSIVE Concat(_)
Concat(seqs) == IF seqs = <<>> THEN <<>> ELSE Head(seqs) \o Concat(Tail(seqs))

\* write_hash_index: "{hash}  {entry}", the entry displayed as its norm_path
write_hash_index(entries) ==
    Concat([i \in DOMAIN entries |->
               LinesOf([hash |-> entries[i].hash, path |-> entries[i].norm_path])])

\* write_meta_index: "{modified}  {len}  {entry}"
write_meta_index(entries) ==
    Concat([i \in DOMAIN entries |->
               LinesOf([modified |-> entries[i].modified, len |-> entries[i].len,
                        path |-> entries[i].norm_path])])

\* mutant: the metadata record is written empty
save_hash_only(entries) ==
    [hash_index |-> Some(write_hash_index(entries)), meta_index |-> Some(<<>>)]

\* save: both records are rewritten
save(entries) ==
    [hash_index |-> Some(write_hash_index(entries)),
     meta_index |-> Some(write_meta_index(entries))]

\* a line splits into its fields and the numbers among them parse
Parses(line) == "path" \in DOMAIN line

\* mutant: the first two fields of a metadata line are read in the other order
read_meta_index_swapped(mi) ==
    IF ~IsSome(mi) THEN Err
    ELSE IF \E i \in DOMAIN Unwrap(mi) : ~Parses(Unwrap(mi)[i]) THEN Err
    ELSE Ok(SortEntries(SelectSeq(
            [i \in DOMAIN Unwrap(mi) |->
                MkEntry(Unwrap(mi)[i].path, "", Unwrap(mi)[i].modified,
                        Unwrap(mi)[i].len)],
            LAMBDA e : DefaultPathFilter_matches(e.path))))

\* read_index: the record is opened, every line parsed (one line that does
\* not parse fails the read), the entries the filter rejects dropped, the rest
\* sorted
read_hash_index(hi) ==
    IF ~IsSome(hi) THEN Err
    ELSE IF \E i \in DOMAIN Unwrap(hi) : ~Parses(Unwrap(hi)[i]) THEN Err
    ELSE Ok(SortEntries(SelectSeq(
            [i \in DOMAIN Unwrap(hi) |->
                MkEntry(Unwrap(hi)[i].path, Unwrap(hi)[i].hash, 0, 0)],
            LAMBDA e : DefaultPathFilter_matches(e.path))))

read_meta_index(mi) ==
    IF ~IsSome(mi) THEN Err
    ELSE IF \E i \in DOMAIN Unwrap(mi) : ~Parses(Unwrap(mi)[i]) THEN Err
    ELSE Ok(SortEntries(SelectSeq(
            [i \in DOMAIN Unwrap(mi) |->
                MkEntry(Unwrap(mi)[i].path, "", Unwrap(mi)[i].len,
                        Unwrap(mi)[i].modified)],
            LAMBDA e : DefaultPathFilter_matches(e.path))))

\* mutant: the numbers of entries are not compared, zip stops at the shorter
join_indices_no_count(hs, ms) ==
    LET n == IF Len(hs) < Len(ms) THEN Len(hs) ELSE Len(ms)
    IN  IF \E i \in 1..n : hs[i].path # ms[i].path THEN Err
        ELSE Ok([i \in 1..n |->
                    MkEntry(hs[i].path, hs[i].hash, ms[i].len, ms[i].modified)])

join_indices(hs, ms) ==
    IF Len(hs) # Len(ms) THEN Err
    ELSE IF \E i \in DOMAIN hs : hs[i].path # ms[i].path THEN Err
    ELSE Ok([i \in DOMAIN hs |->
                MkEntry(hs[i].path, hs[i].hash, ms[i].len, ms[i].modified)])

\* mutant: a record that is missing is read as an empty one
load_missing_is_empty(hi, mi) ==
    LET h == read_hash_index(IF IsSome(hi) THEN hi ELSE Some(<<>>))
        m == read_meta_index(IF IsSome(mi) THEN mi ELSE Some(<<>>))
    IN  IF ~h.ok \/ ~m.ok THEN Err ELSE join_indices(h.val, m.val)

\* load: both records are read, then joined
load(hi, mi) ==
    LET h == read_hash_index(hi)
        m == read_meta_index(mi)
    IN  IF ~h.ok \/ ~m.ok THEN Err ELSE join_indices(h.val, m.val)

-----------------------------------------------------------------------------
(* lib.rs: the commands.  Each returns what it did: its Result, the records
   as it leaves them, the Stats it aggregated (if it got that far), whether it
   walked the directory, the paths whose content it hashed and whether it
   called save.  The directory holds no rule file, so load_filter yields the
   DefaultPathFilter; the progress bar feeds the display only.  The reads of
   a run fail as its io says; init, update and audit are the runs in which
   none fails. *)

Outcome(cmd, arg, io, result, hi, mi, st, scanned, hashed, saved) ==
    [cmd |-> cmd, arg |-> arg, io |-> io, result |-> result, hash_index |-> hi,
     meta_index |-> mi, stats |-> st, scanned |-> scanned, hashed |-> hashed,
     saved |-> saved]

\* the lines read_line can hand to confirm: an answer followed by the newline,
\* or "y" cut short by the end of the input
Answers == {"y\n", "Y\n", "n\n", "yes\n", "y"}

\* str::to_ascii_lowercase on these lines
to_ascii_lowercase(line) == IF line = "Y\n" THEN "y\n" ELSE line

\* mutant: any line that starts with y confirms
confirm_starts_with_y(line) == line \in {"y\n", "Y\n", "yes\n", "y"}

\* confirm: str.eq_ignore_ascii_case("y\n")
confirm(line) == to_ascii_lowercase(line) = "y\n"

init_io(dir, hi, mi, io) ==
    IF index_exists(hi, mi)
    THEN Outcome("init", "", io, Err, hi, mi, None, FALSE, {}, FALSE)
    ELSE IF ~total_file_size_io(dir, hi, mi, io).ok
    THEN Outcome("init", "", io, Err, hi, mi, None, TRUE, {}, FALSE)
    ELSE LET entries == analyze_dir_io(dir, hi, mi, TRUE, TRUE, io)
         IN  IF ~entries.ok
             THEN Outcome("init", "", io, Err, hi, mi, None, TRUE, entries.hashed,
                          FALSE)
             ELSE LET w == save(entries.val)
                  IN  Outcome("init", "", io, Ok(0), w.hash_index, w.meta_index,
                              None, TRUE, entries.hashed, TRUE)

\* mutant: a failure to hash a file goes unnoticed
hash_failures_skipped(new, io) == {}

\* the paths among the entries about to be hashed whose hashing fails
hash_failures(new, io) ==
    {new[i].path : i \in {j \in DOMAIN new : update_hash_opens(new[j], FALSE)}}
        \cap io.hash

update_io(dir, hi, mi, line, io) ==
    LET entries == load(hi, mi)
    IN  IF ~entries.ok
        THEN Outcome("update", line, io, Err, hi, mi, None, FALSE, {}, FALSE)
        ELSE
        LET actual == analyze_dir_io(dir, hi, mi, TRUE, FALSE, io)
        IN  IF ~actual.ok
            THEN Outcome("update", line, io, Err, hi, mi, None, TRUE, {}, FALSE)
            ELSE
            LET st == collect(diff_iter(entries.val, actual.val, "compare_meta"))
            IN  IF ~modified(st)
                THEN Outcome("update", line, io, Ok(0), hi, mi, Some(st), TRUE, {},
                             FALSE)
                ELSE IF ~confirm(line)
                THEN Outcome("update", line, io, Ok(0), hi, mi, Some(st), TRUE, {},
                             FALSE)
                ELSE
                \* the list is sorted before it is saved, so the order in which
                \* moved is walked does not show
                LET mv == CHOOSE o \in KeyOrders(DOMAIN st.moved) : TRUE
                    new == iter_new(st, mv)
                    nohash == SelectSeq(new, LAMBDA x : update_hash_opens(x, FALSE))
                    lacking == [i \in DOMAIN nohash |-> nohash[i].path]
                    bad == hash_failures(new, io)
                IN  IF bad # {}
                    THEN Outcome("update", line, io, Err, hi, mi, Some(st), TRUE,
                                 Before(lacking, bad), FALSE)
                    ELSE
                    LET updated_entries ==
                            SortEntries([i \in DOMAIN new |->
                                            update_hash(new[i], dir, FALSE)])
                        w == save(updated_entries)
                    IN  Outcome("update", line, io, Ok(0), w.hash_index,
                                w.meta_index, Some(st), TRUE, Range(lacking), TRUE)

audit_io(dir, hi, mi, upd, io) ==
    LET entries == load(hi, mi)
    IN  IF ~entries.ok
        THEN Outcome("audit", upd, io, Err, hi, mi, None, FALSE, {}, FALSE)
        ELSE IF ~total_file_size_io(dir, hi, mi, io).ok
        THEN Outcome("audit", upd, io, Err, hi, mi, None, TRUE, {}, FALSE)
        ELSE
        LET actual == analyze_dir_io(dir, hi, mi, TRUE, TRUE, io)
        IN  IF ~actual.ok
            THEN Outcome("audit", upd, io, Err, hi, mi, None, TRUE, actual.hashed,
                         FALSE)
            ELSE
            LET st == collect(diff_iter(entries.val, actual.val,
                                        "compare_hash_and_mtime"))
                hashed == actual.hashed
            IN  IF st.updated_bitrot # <<>>
                THEN Outcome("audit", upd, io, Ok(3), hi, mi, Some(st), TRUE,
                             hashed, FALSE)
                ELSE IF modified(st)
                THEN IF upd
                     THEN LET w == save(actual.val)
                          IN  Outcome("audit", upd, io, Ok(2), w.hash_index,
                                      w.meta_index, Some(st), TRUE, hashed, TRUE)
                     ELSE Outcome("audit", upd, io, Ok(2), hi, mi, Some(st), TRUE,
                                  hashed, FALSE)
                ELSE Outcome("audit", upd, io, Ok(0), hi, mi, Some(st), TRUE,
                             hashed, FALSE)

\* the commands when every read succeeds
init(dir, hi, mi) == init_io(dir, hi, mi, NoFault)
update(dir, hi, mi, line) == update_io(dir, hi, mi, line, NoFault)
audit(dir, hi, mi, upd) == audit_io(dir, hi, mi, upd, NoFault)

\* the exit status of the process: the code of an Ok result, 1 for an Err
ExitCode(result) == IF result.ok THEN result.val ELSE 1

\* the names of the buckets of a Stats value that are not empty
NonEmpty(st) ==
    {b \in {"added", "removed", "updated", "updated_bitrot", "unchanged"} :
        st[b] # <<>>}
    \cup (IF DOMAIN st.moved # {} THEN {"moved"} ELSE {})

\* what is kept of an Outcome once the command has returned
Report(o) ==
    [cmd |-> o.cmd, arg |-> o.arg, io |-> o.io, result |-> o.result,
     scanned |-> o.scanned,
     hashed |-> o.hashed, saved |-> o.saved, collected |-> IsSome(o.stats),
     nonempty |-> IF IsSome(o.stats) THEN NonEmpty(Unwrap(o.stats)) ELSE {}]

\* no command ran in the last step
NoCmd ==
    [cmd |-> "none", arg |-> "", io |-> NoFault, result |-> Ok(0),
     scanned |-> FALSE, hashed |-> {},
     saved |-> FALSE, collected |-> FALSE, nonempty |-> {}]

CmdIdle ==
    /\ fs = EmptyDir
    /\ hash_index = None
    /\ meta_index = None
    /\ last = NoCmd

-----------------------------------------------------------------------------
(* Inputs of SpecDiff: lists sorted ascending by key, keys unique *)

RECURSIVE SortedBy(_, _)
SortedBy(S, f) ==
    IF S = {} THEN <<>>
    ELSE LET k == CHOOSE x \in S : \A y \in S : x <= y
         IN  <<f[k]>> \o SortedBy(S \ {k}, f)


\* baseline entries: recorded with a hash
OldEntries(k) == {MkEntry(k, h, 1, 1) : h \in Hashes}
\* scanned entries
NewEntries(k) == {MkEntry(k, h, 1, t) : h \in Hashes, t \in Times}

\* the lists sorted by key that hold, for each key k of a set S of keys, one
\* entry of byKey[k]
SortedLists(byKey) ==
    UNION {{SortedBy(S, f) : f \in {g \in [S -> UNION {byKey[k] : k \in S}] :
                                        \A k \in S : g[k] \in byKey[k]}} :
           S \in SUBSET Keys}

-----------------------------------------------------------------------------
(* SpecDiff: let stats: Stats = diff_iter(old, new, equal).collect() *)

InitDiff ==
    /\ old_list \in SortedLists([k \in Keys |-> OldEntries(k)])
    /\ new_list \in SortedLists([k \in Keys |-> NewEntries(k)])
    /\ \E eq \in EqualModes : it = NewIter(old_list, new_list, eq)
    /\ emitted = <<>>
    /\ cur = None
    /\ stats = EmptyStats
    /\ pc = "start"
    /\ CmdIdle

\* diff_iter(...) is evaluated and from_iter builds the empty Stats
Construct ==
    /\ pc = "start"
    /\ it' = diff_iter(old_list, new_list, it.equal)
    /\ pc' = "iter"
    /\ UNCHANGED <<old_list, new_list, emitted, cur, stats, cmd_vars>>

\* one turn of `for event in iter`: next() yields an event, the match files it
PullEvent ==
    /\ pc = "iter"
    /\ LET r == DiffIter_next(it)
       IN  /\ IsSome(r.event)
           /\ it' = r.iter
           /\ emitted' = Append(emitted, Unwrap(r.event))
           /\ cur' = r.event
           /\ stats' = from_iter_event(stats, Unwrap(r.event))
    /\ UNCHANGED <<old_list, new_list, pc, cmd_vars>>

\* next() yields None: the loop ends
PullEnd ==
    /\ pc = "iter"
    /\ LET r == DiffIter_next(it)
       IN  /\ ~IsSome(r.event)
           /\ it' = r.iter
    /\ pc' = "moved"
    /\ UNCHANGED <<old_list, new_list, emitted, cur, stats, cmd_vars>>

\* stats.compute_moved(); stats
ComputeMoved ==
    /\ pc = "moved"
    /\ stats' = compute_moved(stats)
    /\ pc' = "done"
    /\ UNCHANGED <<old_list, new_list, it, emitted, cur, cmd_vars>>

NextDiff ==
    \/ Construct
    \/ PullEvent
    \/ PullEnd
    \/ ComputeMoved

SpecDiff == InitDiff /\ [][NextDiff]_vars

-----------------------------------------------------------------------------
(* SpecSelf: a list is merged with itself under the predicate that is always
   true, as in test_diff_unchanged *)

InitSelf ==
    /\ old_list \in SortedLists([k \in Keys |-> NewEntries(k)])
    /\ new_list = old_list
    /\ it = NewIter(old_list, new_list, "always_true")
    /\ emitted = <<>>
    /\ cur = None
    /\ stats = EmptyStats
    /\ pc = "start"
    /\ CmdIdle

SpecSelf == InitSelf /\ [][NextDiff]_vars

-----------------------------------------------------------------------------
(* SpecStats: Stats::from_iter(events) for an arbitrary vector of events *)

StatPaths == {1, 2}
StatEntries == {MkEntry(p, h, 1, 1) : p \in StatPaths, h \in Hashes}
\* both sides of a two-sided event name path 1; the new side may differ from the
\* old side in hash, in modification time, in both or in nothing
PairOld == MkEntry(1, "h1", 1, 1)
PairNew == {MkEntry(1, h, 1, t) : h \in Hashes, t \in Times}

EventUniverse ==
    {Event_ADDED(e) : e \in StatEntries}
    \cup {Event_REMOVED(e) : e \in StatEntries}
    \cup {Event_UPDATED(PairOld, n) : n \in PairNew}
    \cup {Event_UNCHANGED(PairOld, n) : n \in PairNew}

\* the number of events from_iter has matched
Consumed(s) ==
    Len(s.added) + Len(s.removed) + Len(s.updated) + Len(s.updated_bitrot)
    + Len(s.unchanged)

InitStats ==
    /\ old_list = <<>>
    /\ new_list = <<>>
    /\ it = NewIter(<<>>, <<>>, "compare_meta")
    /\ emitted = <<>>
    /\ cur = None
    /\ stats = EmptyStats
    /\ pc = "iter"
    /\ CmdIdle

\* one turn of `for event in iter` on the next event of the vector
FeedEvent ==
    /\ pc = "iter"
    /\ Consumed(stats) < MaxEvents
    /\ \E event \in EventUniverse :
          /\ cur' = Some(event)
          /\ stats' = from_iter_event(stats, event)
    /\ UNCHANGED <<old_list, new_list, it, emitted, pc, cmd_vars>>

\* the vector is exhausted
FeedEnd ==
    /\ pc = "iter"
    /\ cur' = None
    /\ pc' = "moved"
    /\ UNCHANGED <<old_list, new_list, it, emitted, stats, cmd_vars>>

NextStats ==
    \/ FeedEvent
    \/ FeedEnd
    \/ ComputeMoved

SpecStats == InitStats /\ [][NextStats]_vars

-----------------------------------------------------------------------------
(* SpecCmd: init, update and audit are run, in any order and with any answer
   or flag, against a directory whose files are written and removed between the
   runs.  The directory never holds a rule file, so load_filter yields the
   DefaultPathFilter. *)

PipeIdle ==
    /\ old_list = <<>>
    /\ new_list = <<>>
    /\ it = NewIter(<<>>, <<>>, "compare_meta")
    /\ emitted = <<>>
    /\ cur = None
    /\ stats = EmptyStats
    /\ pc = "done"

InitCmd == PipeIdle /\ CmdIdle

\* auditr init <dir>
CmdInit ==
    LET o == init(fs, hash_index, meta_index)
    IN  /\ hash_index' = o.hash_index
        /\ meta_index' = o.meta_index
        /\ last' = Report(o)
        /\ UNCHANGED <<fs, pipe_vars>>

\* auditr update <dir>, the user typing any of the lines
CmdUpdate ==
    \E line \in Answers :
        LET o == update(fs, hash_index, meta_index, line)
        IN  /\ hash_index' = o.hash_index
            /\ meta_index' = o.meta_index
            /\ last' = Report(o)
            /\ UNCHANGED <<fs, pipe_vars>>

\* auditr audit <dir>, with or without --update
CmdAudit ==
    \E upd \in BOOLEAN :
        LET o == audit(fs, hash_index, meta_index, upd)
        IN  /\ hash_index' = o.hash_index
            /\ meta_index' = o.meta_index
            /\ last' = Report(o)
            /\ UNCHANGED <<fs, pipe_vars>>

\* a file is created or overwritten
WriteFile ==
    \E p \in Paths, f \in Files :
        /\ fs' = [fs EXCEPT ![p] = Some(f)]
        /\ last' = NoCmd
        /\ UNCHANGED <<hash_index, meta_index, pipe_vars>>

\* a file is deleted
RemoveFile ==
    \E p \in Paths :
        /\ IsSome(fs[p])
        /\ fs' = [fs EXCEPT ![p] = None]
        /\ last' = NoCmd
        /\ UNCHANGED <<hash_index, meta_index, pipe_vars>>

\* one of the two records is deleted
RemoveHashRecord ==
    /\ IsSome(hash_index)
    /\ hash_index' = None
    /\ last' = NoCmd
    /\ UNCHANGED <<fs, meta_index, pipe_vars>>

RemoveMetaRecord ==
    /\ IsSome(meta_index)
    /\ meta_index' = None
    /\ last' = NoCmd
    /\ UNCHANGED <<fs, hash_index, pipe_vars>>

NextCmd ==
    \/ CmdInit
    \/ CmdUpdate
    \/ CmdAudit
    \/ WriteFile
    \/ RemoveFile
    \/ RemoveHashRecord
    \/ RemoveMetaRecord

SpecCmd == InitCmd /\ [][NextCmd]_vars

-----------------------------------------------------------------------------
(* SpecFault: one run of init, update or audit in which any of the reads
   may fail, on any directory, with no snapshot or with the snapshot of any
   earlier state of the directory. *)

Dirs == [Paths -> {None} \cup {Some(f) : f \in Files}]

\* the records init leaves for the directory dir
SnapshotOf(dir) == save(analyze_dir(dir, None, None, TRUE, TRUE))

InitFault ==
    /\ PipeIdle
    /\ last = NoCmd
    /\ fs \in Dirs
    /\ \/ hash_index = None /\ meta_index = None
       \/ \E dir \in Dirs :
             /\ hash_index = SnapshotOf(dir).hash_index
             /\ meta_index = SnapshotOf(dir).meta_index

RunInit ==
    /\ last = NoCmd
    /\ \E io \in Faults :
        LET o == init_io(fs, hash_index, meta_index, io)
        IN  /\ hash_index' = o.hash_index
            /\ meta_index' = o.meta_index
            /\ last' = Report(o)
            /\ UNCHANGED <<fs, pipe_vars>>

RunUpdate ==
    /\ last = NoCmd
    /\ \E io \in Faults, line \in Answers :
        LET o == update_io(fs, hash_index, meta_index, line, io)
        IN  /\ hash_index' = o.hash_index
            /\ meta_index' = o.meta_index
            /\ last' = Report(o)
            /\ UNCHANGED <<fs, pipe_vars>>

RunAudit ==
    /\ last = NoCmd
    /\ \E io \in Faults, upd \in BOOLEAN :
        LET o == audit_io(fs, hash_index, meta_index, upd, io)
        IN  /\ hash_index' = o.hash_index
            /\ meta_index' = o.meta_index
            /\ last' = Report(o)
            /\ UNCHANGED <<fs, pipe_vars>>

NextFault ==
    \/ RunInit
    \/ RunUpdate
    \/ RunAudit

SpecFault == InitFault /\ [][NextFault]_vars

-----------------------------------------------------------------------------
(* SpecLoad: the snapshot store by itself.  The run starts either from two
   record files of arbitrary lines (either may be missing, any line may be one
   that does not parse, the lines are in any order) or from an arbitrary list
   of entries to be saved.  No record names a key twice and no list holds a
   key twice. *)

\* the paths a line of a record may name
LinePaths == (1..MaxPath) \cup {HASH_INDEX_NAME}

\* the paths of the entries handed to save: path 0 is not in normal form
\* (its norm_path is that of path 1), NewlinePath contains a line feed
EntryPaths == LinePaths \cup {0, NewlinePath}

HashLines ==
    {[hash |-> h, path |-> p] : h \in Hashes, p \in LinePaths}
        \cup {[text |-> "INVALID"]}

MetaLines ==
    {[modified |-> 1, len |-> l, path |-> p] : l \in {1, 2}, p \in LinePaths}
        \cup {[text |-> "1  ABC  1"]}

\* the sequences of at most MaxLines elements of S whose keys are distinct
ListsOf(S, key) ==
    {q \in UNION {[1..n -> S] : n \in 0..MaxLines} :
        \A i, j \in DOMAIN q : i # j => key[q[i]] # key[q[j]]}

\* the key a line names; 0 for a line that names none
LineKey(Lines) ==
    [l \in Lines |-> IF Parses(l) THEN Nfc(l.path) ELSE 0]

SavedEntries ==
    {MkEntry(p, h, 1, t) : p \in EntryPaths, h \in Hashes, t \in Times}

InitLoad ==
    /\ new_list = <<>>
    /\ it = NewIter(<<>>, <<>>, "compare_meta")
    /\ emitted = <<>>
    /\ cur = None
    /\ stats = EmptyStats
    /\ pc = "done"
    /\ last = NoCmd
    /\ fs \in {EmptyDir, [EmptyDir EXCEPT ![1] = Some([content |-> "x", mtime |-> 1])]}
    /\ \/ /\ old_list = <<>>
          /\ hash_index \in {None} \cup {Some(r) : r \in ListsOf(HashLines, LineKey(HashLines))}
          /\ meta_index \in {None} \cup {Some(r) : r \in ListsOf(MetaLines, LineKey(MetaLines))}
       \/ /\ old_list \in ListsOf(SavedEntries, [e \in SavedEntries |-> e.norm_path])
          /\ hash_index = None
          /\ meta_index = None

\* index::load(path, &DefaultPathFilter::new(path))
Load ==
    LET r == load(hash_index, meta_index)
    IN  /\ new_list' = IF r.ok THEN r.val ELSE <<>>
        /\ last' = [NoCmd EXCEPT !.cmd = "load",
                                 !.result = IF r.ok THEN Ok(0) ELSE Err]
        /\ UNCHANGED <<old_list, it, emitted, cur, stats, pc, fs, hash_index,
                       meta_index>>

\* index::save(path, &entries)
Save ==
    /\ hash_index' = save(old_list).hash_index
    /\ meta_index' = save(old_list).meta_index
    /\ last' = [NoCmd EXCEPT !.cmd = "save", !.saved = TRUE]
    /\ UNCHANGED <<pipe_vars, fs>>

\* load's result becomes the list handed to the next save
SaveAgain ==
    /\ last.cmd = "load"
    /\ last.result.ok
    /\ new_list # old_list
    /\ old_list' = new_list
    /\ last' = NoCmd
    /\ UNCHANGED <<new_list, it, emitted, cur, stats, pc, fs, hash_index,
                   meta_index>>

NextLoad ==
    \/ Load
    \/ Save
    \/ SaveAgain
    \/ CmdUpdate
    \/ CmdAudit

SpecLoad == InitLoad /\ [][NextLoad]_vars

-----------------------------------------------------------------------------
(* SpecFilter: a GlobPathFilter is built from a list of rules (as the tests
   of matches do) or loaded from a rule file, and then asked about paths.
   old_list holds the lines of the rule file, it the filter, cur the last
   question and its answer. *)

Root == <<"r">>

\* relative paths: the records and the rule file at the root, files at the
\* root, files of those names in a directory
RelPaths ==
    {<<"H">>, <<"M">>, <<"I">>, <<"a">>, <<"b">>, <<"d", "H">>, <<"d", "I">>,
     <<"d", "a">>}

\* the paths a filter is asked about: under the root, and outside it
QueryPaths == {Root \o rel : rel \in RelPaths} \cup {<<"o", "a">>, <<"o", "H">>}

RulePatterns ==
    {<<"a">>, <<"*">>, <<"**/", "a">>, <<"d", "/", "*">>, <<"H">>, <<"b">>}

Rules == [pattern : RulePatterns, include : BOOLEAN]

\* lines of a rule file: blank ones, comments, exclude and include rules, a
\* "#" after a blank, a pattern that is refused
RuleLines ==
    {<<>>, <<" ">>, <<"#", "a">>, <<" ", "#">>, <<"[">>,
     <<"!", "H">>, <<"!", "M">>, <<"!", "I">>, <<"!", "*">>, <<"*">>,
     <<"a">>, <<"!", "a">>, <<"**/", "a">>, <<"d", "/", "*">>}

SeqsUpTo(S, n) == UNION {[1..k -> S] : k \in 0..n}

InitFilter ==
    /\ new_list = <<>>
    /\ emitted = <<>>
    /\ cur = None
    /\ stats = EmptyStats
    /\ CmdIdle
    /\ \/ /\ pc = "start"
          /\ old_list \in SeqsUpTo(RuleLines, MaxRules)
          /\ it = None
       \/ /\ pc = "filter"
          /\ old_list = <<>>
          /\ \E rules \in SeqsUpTo(Rules, MaxRules), d \in BOOLEAN :
                it = GlobPathFilter_new(Root, rules, d)

\* GlobPathFilter::load_from_path(root, include_by_default)
LoadFilter ==
    /\ pc = "start"
    /\ \E d \in BOOLEAN :
          LET r == load_from_path(Root, old_list, d)
          IN  IF r.ok THEN it' = r.val /\ pc' = "loaded"
              ELSE it' = it /\ pc' = "failed"
    /\ UNCHANGED <<old_list, new_list, emitted, cur, stats, cmd_vars>>

\* filter.matches(p)
Match ==
    /\ pc \in {"filter", "loaded"}
    /\ \E p \in QueryPaths :
          cur' = Some([path |-> p, answer |-> GlobPathFilter_matches(it, p)])
    /\ UNCHANGED <<old_list, new_list, it, emitted, stats, pc, cmd_vars>>

NextFilter ==
    \/ LoadFilter
    \/ Match

SpecFilter == InitFilter /\ [][NextFilter]_vars

-----------------------------------------------------------------------------
(* SpecScan: analyze_dir on a directory tree.  fs maps a path to the node at
   it, a regular file, a directory or a node of another kind (a link, a
   pipe); path 0 is a name that is not in normal form and whose normal form
   is path 1, so that the tree can hold two names with one key.  emitted is
   the list the last scan returned, cur the two flags it was called with. *)

ScanPaths == 0..MaxPath

Nodes ==
    [kind : {"file"}, content : Contents, mtime : Times]
    \cup [kind : {"dir", "other"}, content : {""}, mtime : {0}]

\* WalkDir::new(dir_name) with filter_entry: every node of the tree but the
\* two records at the root
TreeWalk(dir, hi, mi) ==
    {q \in {p \in ScanPaths : IsSome(dir[p])}
           \cup (IF IsSome(hi) THEN {HASH_INDEX_NAME} ELSE {})
           \cup (IF IsSome(mi) THEN {META_INDEX_NAME} ELSE {}) :
        DefaultPathFilter_matches(q)}

\* entry.file_type().is_file()
is_file(dir, p) == Unwrap(dir[p]).kind = "file"

\* sort_unstable: the entries in some order that ascends by key; the order of
\* entries with equal keys is not specified
sort_unstable(S) ==
    {list \in [1..Cardinality(S) -> S] :
        /\ \A e \in S : \E i \in DOMAIN list : list[i] = e
        /\ \A i, j \in DOMAIN list :
              i < j => list[i].norm_path <= list[j].norm_path}

\* the lists analyze_dir can return for a tree
analyze_tree(dir, hi, mi, compute_meta, compute_hash) ==
    sort_unstable({Scanned(dir, p, compute_meta, compute_hash) :
                      p \in {q \in TreeWalk(dir, hi, mi) : is_file(dir, q)}})

Present == {None, Some(<<>>)}

InitScan ==
    /\ old_list = <<>>
    /\ new_list = <<>>
    /\ it = None
    /\ emitted = <<>>
    /\ cur = None
    /\ stats = EmptyStats
    /\ pc = "tree"
    /\ fs = [p \in ScanPaths |-> None]
    /\ hash_index \in Present
    /\ meta_index \in Present
    /\ last = NoCmd

\* analyze_dir(dir_name, compute_meta, compute_hash, update)
ScanDir ==
    /\ \E compute_meta, compute_hash \in BOOLEAN :
          /\ emitted' \in analyze_tree(fs, hash_index, meta_index,
                                       compute_meta, compute_hash)
          /\ cur' = Some([compute_meta |-> compute_meta,
                          compute_hash |-> compute_hash])
    /\ pc' = "scanned"
    /\ UNCHANGED <<old_list, new_list, it, stats, cmd_vars>>

\* a node is created, replaced or removed between two scans
ChangeNode ==
    /\ \E p \in ScanPaths, n \in {None} \cup {Some(x) : x \in Nodes} :
          /\ fs[p] # n
          /\ fs' = [fs EXCEPT ![p] = n]
    /\ pc' = "tree"
    /\ emitted' = <<>>
    /\ cur' = None
    /\ UNCHANGED <<old_list, new_list, it, stats, hash_index, meta_index, last>>

NextScan ==
    \/ ScanDir
    \/ ChangeNode

SpecScan == InitScan /\ [][NextScan]_vars

-----------------------------------------------------------------------------
(* SpecHash: Entry::hash_file on one file.  old_list holds the bytes of the
   file, emitted the bytes given to the hasher so far (the digest is a
   function of them, and of them only), new_list the sizes given to the
   progress callback, it the position in the file and whether a read has
   returned less than it could. *)

\* the length of buf, 1024 * 1024 in the source, and the longest file
BufLen == 2
MaxFile == 5

Bytes == {0, 1}

\* file.read(&mut buf): at the end of the file 0, before it any number of
\* bytes from 1 to what the buffer takes and the file still has
ReadSizes(len, pos) ==
    IF pos = len THEN {0}
    ELSE {n \in 1..BufLen : pos + n <= len}

InitHash ==
    /\ old_list \in SeqsUpTo(Bytes, MaxFile)
    /\ new_list = <<>>
    /\ it = [pos |-> 0, short |-> FALSE]
    /\ emitted = <<>>
    /\ cur = None
    /\ stats = EmptyStats
    /\ pc = "reading"
    /\ CmdIdle

\* one turn of the loop of hash_file: read, report the size, feed the hasher,
\* and leave the loop when the read did not fill the buffer
HashRead ==
    /\ pc = "reading"
    /\ \E size \in ReadSizes(Len(old_list), it.pos) :
          /\ new_list' = Append(new_list, size)
          /\ emitted' = emitted \o SubSeq(old_list, it.pos + 1, it.pos + size)
          /\ it' = [pos |-> it.pos + size,
                    short |-> it.short
                              \/ \E n \in ReadSizes(Len(old_list), it.pos) : size < n]
          /\ pc' = IF size # BufLen THEN "done" ELSE "reading"
    /\ UNCHANGED <<old_list, cur, stats, cmd_vars>>

NextHash == HashRead

SpecHash == InitHash /\ [][NextHash]_vars

-----------------------------------------------------------------------------
(* SpecAny: diff_iter on any two lists, in any order and with keys that
   repeat, pulled to its end and asked again after it *)

MaxAny == 3

AnyEntries == {MkEntry(k, h, 1, 1) : k \in {1, 2}, h \in Hashes}

InitAny ==
    /\ old_list \in SeqsUpTo(AnyEntries, MaxAny)
    /\ new_list \in SeqsUpTo(AnyEntries, MaxAny)
    /\ \E eq \in EqualModes : it = NewIter(old_list, new_list, eq)
    /\ emitted = <<>>
    /\ cur = None
    /\ stats = EmptyStats
    /\ pc = "start"
    /\ CmdIdle

\* next() is called on an iterator that has returned None
PullAfterEnd ==
    /\ pc \in {"moved", "ended"}
    /\ LET r == DiffIter_next(it)
       IN  /\ it' = r.iter
           /\ cur' = r.event
           /\ emitted' = IF IsSome(r.event) THEN Append(emitted, Unwrap(r.event))
                         ELSE emitted
    /\ pc' = "ended"
    /\ UNCHANGED <<old_list, new_list, stats, cmd_vars>>

NextAny ==
    \/ Construct
    \/ PullEvent
    \/ PullEnd
    \/ PullAfterEnd

SpecAny == InitAny /\ [][NextAny]_vars

-----------------------------------------------------------------------------
(* Claims C1, C2, C7, C8: the merge and its aggregation (SpecDiff) *)

KeysOf(list) == {e.norm_path : e \in Range(list)}
EntryAt(list, k) == CHOOSE e \in Range(list) : e.norm_path = k
EventKey(ev) ==
    IF IsSome(ev.new) THEN Unwrap(ev.new).norm_path ELSE Unwrap(ev.old).norm_path
UnionKeys == KeysOf(old_list) \cup KeysOf(new_list)
IterEnded == pc \in {"moved", "done"}

\* C1: on sorted unique-key inputs diff_iter yields one event per key of the
\* union of both inputs, in strictly ascending key order, and ends exactly
\* when every key of the union has had its event.
C1_OneEventPerKey ==
    /\ \A i, j \in DOMAIN emitted :
          i < j => EventKey(emitted[i]) < EventKey(emitted[j])
    /\ {EventKey(emitted[i]) : i \in DOMAIN emitted} \subseteq UnionKeys
    /\ pc = "iter" =>
          (DiffIter_next(it).event = None <=> Len(emitted) = Cardinality(UnionKeys))
    /\ IterEnded =>
          /\ Len(emitted) = Cardinality(UnionKeys)
          /\ {EventKey(emitted[i]) : i \in DOMAIN emitted} = UnionKeys

C1_Witness ==
    /\ pc = "done"
    /\ Len(emitted) = 3
    /\ Len(old_list) = 2
    /\ Len(new_list) = 2

\* the event the claim expects for key k
ExpectedEvent(k) ==
    IF k \notin KeysOf(new_list) THEN Event_REMOVED(EntryAt(old_list, k))
    ELSE IF k \notin KeysOf(old_list) THEN Event_ADDED(EntryAt(new_list, k))
    ELSE IF ApplyEqual(it.equal, EntryAt(old_list, k), EntryAt(new_list, k))
         THEN Event_UNCHANGED(EntryAt(old_list, k), EntryAt(new_list, k))
         ELSE Event_UPDATED(EntryAt(old_list, k), EntryAt(new_list, k))

\* C2: the kind of the event of a key is decided by membership: only in old
\* gives Removed(old), only in new gives Added(new), in both gives
\* Unchanged(old,new) when equal(old,new) and Updated(old,new) otherwise; a
\* key of both lists is never reported Added or Removed.
C2_KindByMembership ==
    /\ \A i \in DOMAIN emitted : emitted[i] = ExpectedEvent(EventKey(emitted[i]))
    /\ \A i \in DOMAIN emitted :
          emitted[i].kind \in {"ADDED", "REMOVED"} =>
              EventKey(emitted[i]) \notin (KeysOf(old_list) \cap KeysOf(new_list))
    /\ IterEnded => \A k \in UnionKeys : ExpectedEvent(k) \in Range(emitted)

C2_Witness ==
    /\ pc = "done"
    /\ {emitted[i].kind : i \in DOMAIN emitted} = {"REMOVED", "UPDATED", "UNCHANGED"}

\* the number of events of emitted that name an entry of the new list
NewSideEvents == Cardinality({i \in DOMAIN emitted : emitted[i].kind # "REMOVED"})

\* C7: total counts the events other than Removed, so it is untouched by
\* Removed events and by the move post-pass; after the post-pass it is the
\* length of the new list and the sum of the sizes of the five new-side buckets.
C7_TotalIsNewCount ==
    /\ stats.total = NewSideEvents
    /\ IterEnded => stats.total = Len(new_list)
    /\ pc = "done" =>
          stats.total = Len(stats.added) + Len(stats.unchanged) + Len(stats.updated)
                        + Len(stats.updated_bitrot) + Cardinality(DOMAIN stats.moved)

C7_Witness ==
    /\ pc = "done"
    /\ DOMAIN stats.moved # {}
    /\ stats.removed # <<>>
    /\ stats.total = 1

Occ(seq, k) == Cardinality({i \in DOMAIN seq : seq[i].norm_path = k})
\* how often key k is filed on the new side, and on the old side
NewSideOcc(s, k) ==
    Occ(s.added, k) + Occ(s.unchanged, k) + Occ(s.updated, k)
    + Occ(s.updated_bitrot, k)
    + Cardinality({p \in DOMAIN s.moved : s.moved[p].norm_path = k})
OldSideOcc(s, k) ==
    Occ(s.removed, k) + Cardinality({p \in DOMAIN s.moved : Nfc(p) = k})

\* C8: after aggregation every key of the new list is filed exactly once among
\* added, unchanged, updated, updated_bitrot and the values of moved; every
\* key of the old list that the new list lacks exactly once among removed and
\* the keys of moved; no other key is filed anywhere.
C8_BucketsPartition ==
    pc = "done" =>
        \A k \in Keys :
            /\ NewSideOcc(stats, k) = IF k \in KeysOf(new_list) THEN 1 ELSE 0
            /\ OldSideOcc(stats, k) =
                  IF k \in KeysOf(old_list) \ KeysOf(new_list) THEN 1 ELSE 0

C8_Witness ==
    /\ pc = "done"
    /\ DOMAIN stats.moved # {}
    /\ Len(stats.unchanged) + Len(stats.updated) + Len(stats.updated_bitrot) = 1

-----------------------------------------------------------------------------
(* Claims C3, C4: the aggregator on arbitrary events (SpecStats) *)

\* a step that matched one event
Matched == pc = "iter" /\ pc' = "iter" /\ IsSome(cur')

IsBitrot(event) ==
    /\ Unwrap(event.old).modified = Unwrap(event.new).modified
    /\ Unwrap(event.old).hash # Unwrap(event.new).hash

\* C3: an Updated(old,new) event with old.modified = new.modified and
\* old.hash # new.hash appends new to updated_bitrot and leaves updated alone;
\* every other Updated event appends new to updated and leaves updated_bitrot
\* alone; either way total grows by exactly 1.
C3_BitrotRule ==
    [][(Matched /\ Unwrap(cur').kind = "UPDATED") =>
          LET event == Unwrap(cur')
          IN  /\ stats'.total = stats.total + 1
              /\ IF IsBitrot(event)
                 THEN /\ stats'.updated_bitrot =
                            Append(stats.updated_bitrot, Unwrap(event.new))
                      /\ stats'.updated = stats.updated
                 ELSE /\ stats'.updated = Append(stats.updated, Unwrap(event.new))
                      /\ stats'.updated_bitrot = stats.updated_bitrot]_vars

C3_Witness ==
    /\ pc = "done"
    /\ stats.updated_bitrot # <<>>
    /\ stats.updated # <<>>

\* the post-pass step
Passed == pc = "moved" /\ pc' = "done"

PathsOf(seq) == {seq[i].path : i \in DOMAIN seq}

\* what the claim promises for removed[i] and added[j]
MovedTo(i, j) ==
    LET P == stats.removed[i].path
        Q == stats.added[j]
    IN  /\ P \in DOMAIN stats'.moved
        /\ stats'.moved[P] = Q
        /\ P \notin PathsOf(stats'.removed)
        /\ Q \notin Range(stats'.added)

OnlyRemovedWithHash(i) ==
    \A i2 \in DOMAIN stats.removed :
        i2 # i => stats.removed[i2].hash # stats.removed[i].hash
OnlyRemovedWithPath(i) ==
    \A i2 \in DOMAIN stats.removed :
        i2 # i => stats.removed[i2].path # stats.removed[i].path
OnlyAddedWithHash(j) ==
    \A j2 \in DOMAIN stats.added :
        j2 # j => stats.added[j2].hash # stats.added[j].hash

\* C4 as stated: a removed entry at P and an added entry Q of the same hash,
\* no other removed entry having that hash, end as moved[P] = Q with P out of
\* removed and Q out of added.
C4_Original ==
    [][Passed =>
          \A i \in DOMAIN stats.removed, j \in DOMAIN stats.added :
              (/\ stats.removed[i].hash = stats.added[j].hash
               /\ OnlyRemovedWithHash(i))
              => MovedTo(i, j)]_vars

\* C4 (amended): a removed entry at P and an added entry Q of the same hash,
\* no other removed entry having that hash or the path P and no other added
\* entry having that hash, end as moved[P] = Q with P out of removed and Q
\* out of added.
C4_MoveDetection ==
    [][Passed =>
          \A i \in DOMAIN stats.removed, j \in DOMAIN stats.added :
              (/\ stats.removed[i].hash = stats.added[j].hash
               /\ OnlyRemovedWithHash(i)
               /\ OnlyRemovedWithPath(i)
               /\ OnlyAddedWithHash(j))
              => MovedTo(i, j)]_vars

C4_Witness ==
    /\ pc = "done"
    /\ Cardinality(DOMAIN stats.moved) = 1
    /\ stats.added # <<>>
    /\ stats.removed # <<>>

-----------------------------------------------------------------------------
(* Claims about the commands, checked under SpecCmd *)

\* the files the directory holds, by ascending path
RECURSIVE Ascending(_)
Ascending(S) ==
    IF S = {} THEN <<>>
    ELSE LET m == CHOOSE x \in S : \A y \in S : x <= y
         IN  <<m>> \o Ascending(S \ {m})

FilesPresent == {p \in Paths : fs[p] # None}

\* the two records a full scan of the directory as it stands would give
HashLinesOfDir ==
    LET ps == Ascending(FilesPresent)
    IN  [i \in DOMAIN ps |-> [hash |-> HashOf(fs[ps[i]][1].content), path |-> ps[i]]]

MetaLinesOfDir ==
    LET ps == Ascending(FilesPresent)
    IN  [i \in DOMAIN ps |->
            [modified |-> fs[ps[i]][1].mtime, len |-> LenOf(fs[ps[i]][1].content),
             path |-> ps[i]]]

\* of the Stats the command of this step aggregated
BitrotFound(report) == "updated_bitrot" \in report.nonempty
OtherChangeFound(report) ==
    report.nonempty \cap {"added", "removed", "updated", "moved"} # {}

C6_AuditWrites ==
    [][last'.cmd = "audit" =>
        IF last'.collected /\ ~BitrotFound(last') /\ OtherChangeFound(last')
           /\ last'.arg = TRUE
        THEN /\ last'.saved
             /\ hash_index' = Some(HashLinesOfDir)
             /\ meta_index' = Some(MetaLinesOfDir)
        ELSE /\ ~last'.saved
             /\ UNCHANGED <<hash_index, meta_index>>]_vars

\* an audit with the update flag has found a moved file, no bitrot, and saved
C6_Witness ==
    /\ last.cmd = "audit"
    /\ last.arg = TRUE
    /\ "moved" \in last.nonempty
    /\ last.saved
    /\ hash_index = Some(HashLinesOfDir)

\* C9: init in a directory that holds the hash record, the metadata record or
\* both fails with a non-zero exit, scans nothing and leaves the records as
\* they were; in a directory that holds neither it hashes every file and
\* writes both records from the scan.
C9_InitGuard ==
    [][last'.cmd = "init" =>
        IF hash_index # None \/ meta_index # None
        THEN /\ ExitCode(last'.result) # 0
             /\ ~last'.scanned
             /\ last'.hashed = {}
             /\ UNCHANGED <<hash_index, meta_index>>
        ELSE /\ last'.scanned
             /\ last'.hashed = FilesPresent
             /\ hash_index' = Some(HashLinesOfDir)
             /\ meta_index' = Some(MetaLinesOfDir)]_vars

\* init has failed in a directory that holds the hash record only
C9_Witness ==
    /\ last.cmd = "init"
    /\ ExitCode(last.result) = 1
    /\ hash_index # None
    /\ meta_index = None
    /\ FilesPresent # {}

\* the answer the user typed: the line without its newline
AnswerOf(line) ==
    IF line = "y\n" THEN "y"
    ELSE IF line = "Y\n" THEN "Y"
    ELSE IF line = "n\n" THEN "n"
    ELSE IF line = "yes\n" THEN "yes"
    ELSE line

AnsweredYes(line) == AnswerOf(line) \in {"y", "Y"}

\* C10: update changes a record only by saving, and saves only when the Stats
\* of the metadata diff are modified and the answer is y or Y; when the Stats
\* are not modified, or the answer is anything else, it exits 0, hashes no
\* file and leaves both records as they were.
C10_UpdateWrites ==
    [][last'.cmd = "update" =>
        /\ (hash_index' # hash_index \/ meta_index' # meta_index) => last'.saved
        /\ last'.saved =>
              /\ BitrotFound(last') \/ OtherChangeFound(last')
              /\ AnsweredYes(last'.arg)
        /\ (/\ last'.collected
            /\ \/ ~(BitrotFound(last') \/ OtherChangeFound(last'))
               \/ ~AnsweredYes(last'.arg))
           => /\ ExitCode(last'.result) = 0
              /\ last'.hashed = {}
              /\ UNCHANGED <<hash_index, meta_index>>]_vars

\* update has found a change, been answered "yes" and written nothing
C10_Witness ==
    /\ last.cmd = "update"
    /\ last.collected
    /\ "updated" \in last.nonempty
    /\ last.arg = "yes\n"
    /\ ~last.saved
    /\ ExitCode(last.result) = 0

-----------------------------------------------------------------------------
(* Claims about runs of one command after another (SpecCmd) *)

\* the lines a record holds for the path p
LinesFor(rec, p) ==
    IF rec = None THEN {} ELSE {rec[1][i] : i \in {j \in DOMAIN rec[1] : rec[1][j].path = p}}

\* the file at p has the length and the modification time the snapshot records
\* for it, and a content the recorded hash is not the digest of
HiddenEdit(p) ==
    /\ fs[p] # None
    /\ \E m \in LinesFor(meta_index, p) :
          /\ m.len = LenOf(fs[p][1].content)
          /\ m.modified = fs[p][1].mtime
    /\ \E h \in LinesFor(hash_index, p) : h.hash # HashOf(fs[p][1].content)

\* an audit of the directory dir with the records hi and mi exits 0 with
\* every file unchanged
CleanAudit(dir, hi, mi) ==
    \A upd \in BOOLEAN :
        LET o == audit(dir, hi, mi, upd)
        IN  /\ ExitCode(o.result) = 0
            /\ NonEmpty(o.stats[1]) \subseteq {"unchanged"}
            /\ Len(o.stats[1].unchanged) = Cardinality({p \in Paths : dir[p] # None})
            /\ o.stats[1].total = Cardinality({p \in Paths : dir[p] # None})
            /\ ~o.saved
            /\ o.hash_index = hi
            /\ o.meta_index = mi

\* an audit of the directory dir with the records hi and mi reports bitrot,
\* exits 3 and writes nothing
BitrotAudit(dir, hi, mi) ==
    \A upd \in BOOLEAN :
        LET o == audit(dir, hi, mi, upd)
        IN  /\ ExitCode(o.result) = 3
            /\ ~o.saved

AuditClean == CleanAudit(fs, hash_index, meta_index)

-----------------------------------------------------------------------------
(* Claims about reads that fail (SpecFault) *)

\* update hashes the file at p: its length or modification time is not the
\* one its metadata line records, or it has no line
NeedsHash(p) ==
    ~\E m \in LinesFor(meta_index, p) :
        m.len = LenOf(fs[p][1].content) /\ m.modified = fs[p][1].mtime

\* one of the reads the run of report makes has failed: the read of the
\* directory, the metadata of a file that is there, or a hash the command
\* takes (init and audit hash every file, update those that NeedsHash names,
\* once the user has typed y or Y and the line's end)
ReadFailed(report) ==
    \/ report.io.walk
    \/ FilesPresent \cap report.io.meta # {}
    \/ /\ report.cmd \in {"init", "audit"}
       /\ FilesPresent \cap report.io.hash # {}
    \/ /\ report.cmd = "update"
       /\ report.arg \in {"y\n", "Y\n"}
       /\ \E p \in FilesPresent \cap report.io.hash : NeedsHash(p)

RecordedPaths(rec) == {rec[1][i].path : i \in DOMAIN rec[1]}

\* C14: when a directory read, a metadata read or a file hash fails during
\* init, update or audit (a file that vanished between update's scan and its
\* hashing included), the command returns an error, save is not called and
\* both records stay as they were; and a run that does save has skipped no
\* file: the records it writes name every file of the directory.
C14_ReadFailure ==
    [][last'.cmd \in {"init", "update", "audit"} =>
          /\ ReadFailed(last') =>
                /\ ~last'.result.ok
                /\ ~last'.saved
                /\ hash_index' = hash_index
                /\ meta_index' = meta_index
          /\ last'.saved =>
                /\ RecordedPaths(hash_index') = FilesPresent
                /\ RecordedPaths(meta_index') = FilesPresent]_vars

\* update has failed after its diff, on the hash of a file, and the snapshot
\* it had loaded is still there
C14_Witness ==
    /\ last.cmd = "update"
    /\ ~last.result.ok
    /\ last.collected
    /\ ~last.io.walk
    /\ last.io.meta = {}
    /\ last.io.hash \cap FilesPresent # {}
    /\ hash_index # None
    /\ meta_index # None

-----------------------------------------------------------------------------
(* Claims about the snapshot store (SpecLoad) *)

\* both records exist, each of their lines parses, and the lines the filter
\* keeps name the same paths in both
KeptPaths(rec) ==
    {rec[i].path : i \in {j \in DOMAIN rec : DefaultPathFilter_matches(rec[j].path)}}

Loadable(hi, mi) ==
    /\ IsSome(hi) /\ IsSome(mi)
    /\ \A i \in DOMAIN Unwrap(hi) : Parses(Unwrap(hi)[i])
    /\ \A i \in DOMAIN Unwrap(mi) : Parses(Unwrap(mi)[i])
    /\ KeptPaths(Unwrap(hi)) = KeptPaths(Unwrap(mi))

\* C13: update and audit started on a directory whose snapshot does not load
\* fail with exit code 1 before the directory is scanned or a diff computed,
\* and leave both record files as they were: none is created, none rewritten.
C13_NoSnapshot ==
    [][(last'.cmd \in {"update", "audit"} /\ ~Loadable(hash_index, meta_index)) =>
          /\ ExitCode(last'.result) = 1
          /\ ~last'.scanned
          /\ ~last'.collected
          /\ last'.hashed = {}
          /\ ~last'.saved
          /\ hash_index' = hash_index
          /\ meta_index' = meta_index]_vars

\* update or audit has just failed on a directory that holds a file and no
\* record at all
C13_Witness ==
    /\ last.cmd \in {"update", "audit"}
    /\ ~last.result.ok
    /\ hash_index = None
    /\ meta_index = None
    /\ fs[1] # None

\* the lines of a record the filter keeps, and the place of one of them once
\* they are sorted by key
KeptLines(rec) ==
    {rec[i] : i \in {j \in DOMAIN rec : DefaultPathFilter_matches(rec[j].path)}}
Rank(l, S) == 1 + Cardinality({x \in S : Nfc(x.path) < Nfc(l.path)})

AllParse(rec) == \A i \in DOMAIN rec : Parses(rec[i])

\* C15: when both records are there, load succeeds if and only if every line
\* of both parses and, the lines the filter rejects dropped and each record
\* sorted by key, the records have the same number of entries and the same
\* path at every position; then entry i has path and hash of the i-th hash
\* line and len and modified of the i-th metadata line; otherwise load
\* returns an error and no entries.
C15_LoadJoin ==
    (last.cmd = "load" /\ IsSome(hash_index) /\ IsSome(meta_index)) =>
        LET hs == Unwrap(hash_index)
            ms == Unwrap(meta_index)
            match ==
                /\ AllParse(hs) /\ AllParse(ms)
                /\ Cardinality(KeptLines(hs)) = Cardinality(KeptLines(ms))
                /\ \A h \in KeptLines(hs), m \in KeptLines(ms) :
                      Rank(h, KeptLines(hs)) = Rank(m, KeptLines(ms)) => h.path = m.path
        IN  /\ last.result.ok <=> match
            /\ ~last.result.ok => new_list = <<>>
            /\ last.result.ok =>
                  /\ Len(new_list) = Cardinality(KeptLines(hs))
                  /\ \A h \in KeptLines(hs), m \in KeptLines(ms) :
                        Rank(h, KeptLines(hs)) = Rank(m, KeptLines(ms)) =>
                            LET e == new_list[Rank(h, KeptLines(hs))]
                            IN  /\ e.path = h.path /\ e.hash = h.hash
                                /\ e.len = m.len /\ e.modified = m.modified

\* load has joined two records that list their lines in different orders, one
\* of them with a line the filter drops
C15_Witness ==
    /\ last.cmd = "load"
    /\ last.result.ok
    /\ new_list # <<>>
    /\ Len(Unwrap(hash_index)) # Len(Unwrap(meta_index))

\* load has refused two records of the same length that name different paths
C15_WitnessMismatch ==
    /\ last.cmd = "load"
    /\ ~last.result.ok
    /\ IsSome(hash_index) /\ IsSome(meta_index)
    /\ AllParse(Unwrap(hash_index)) /\ AllParse(Unwrap(meta_index))
    /\ Len(Unwrap(hash_index)) = Len(Unwrap(meta_index))

\* path, hash, len and modified of an entry
Fields(e) == <<e.path, e.hash, e.len, e.modified>>

\* the records are what save writes for old_list, and load has just read them
SavedAndLoaded ==
    /\ last.cmd = "load"
    /\ hash_index = save(old_list).hash_index
    /\ meta_index = save(old_list).meta_index

\* load has returned the entries of list, field by field, in ascending key
\* order
Returned(list) ==
    /\ last.result.ok
    /\ Len(new_list) = Len(list)
    /\ {Fields(new_list[i]) : i \in DOMAIN new_list} = {Fields(list[i]) : i \in DOMAIN list}
    /\ \A i, j \in DOMAIN new_list : i < j => new_list[i].norm_path < new_list[j].norm_path

KeysAscend(list) ==
    \A i, j \in DOMAIN list : i < j => list[i].norm_path < list[j].norm_path

\* a path save and load bring back as it was: it is in normal form, holds no
\* line feed and is not the name of a record
Plain(path) ==
    /\ Nfc(path) = path
    /\ path # NewlinePath
    /\ DefaultPathFilter_matches(path)

\* C16 as stated: save followed by load returns the entries of any list with
\* distinct keys, and a list that is already in key order comes back as it was.
C16_Original ==
    SavedAndLoaded =>
        /\ Returned(old_list)
        /\ KeysAscend(old_list) => new_list = old_list

\* what save and load do in fact: the entries of a list of plain paths come
\* back (same path, hash, len and modified, in ascending key order, a list
\* already in key order as it was); an entry named after a record is dropped,
\* a path not in normal form comes back as its normal form, and a path with a
\* line feed makes load fail.
C16_RoundTrip ==
    SavedAndLoaded =>
        /\ (\A i \in DOMAIN old_list : Plain(old_list[i].path)) =>
              /\ Returned(old_list)
              /\ KeysAscend(old_list) => new_list = old_list
        /\ (\E i \in DOMAIN old_list : old_list[i].path = NewlinePath) =>
              ~last.result.ok
        /\ (\A i \in DOMAIN old_list : old_list[i].path # NewlinePath) =>
              /\ last.result.ok
              /\ {Fields(new_list[i]) : i \in DOMAIN new_list} =
                    {<<Nfc(e.path), e.hash, e.len, e.modified>> :
                        e \in {x \in Range(old_list) : DefaultPathFilter_matches(x.path)}}

\* two entries given in descending key order have come back in ascending
\* order, and the list load returned has been saved and loaded again
C16_Witness ==
    /\ SavedAndLoaded
    /\ last.result.ok
    /\ Len(new_list) = 2
    /\ new_list = old_list
    /\ \A i \in DOMAIN old_list : Plain(old_list[i].path)

\* two plain entries given in descending key order have come back ascending
C16_WitnessReordered ==
    /\ SavedAndLoaded
    /\ Len(old_list) = 2
    /\ old_list[1].norm_path > old_list[2].norm_path
    /\ \A i \in DOMAIN old_list : Plain(old_list[i].path)
    /\ Returned(old_list)

-----------------------------------------------------------------------------
(* Claim C17: a list merged with itself (SpecSelf) *)

\* C17: diff_iter(X, X, equal) with an equal that is always true yields one
\* event per element of X and no more, every one of them Unchanged and
\* pairing the element with itself, in the order of X.
C17_SelfDiff ==
    /\ Len(emitted) <= Len(old_list)
    /\ \A i \in DOMAIN emitted :
          emitted[i] = Event_UNCHANGED(old_list[i], old_list[i])
    /\ pc = "iter" =>
          (DiffIter_next(it).event = None <=> Len(emitted) = Len(old_list))
    /\ pc \in {"moved", "done"} => Len(emitted) = Len(old_list)

\* the merge of a list of MaxKey entries with itself has ended
C17_Witness ==
    /\ it.equal = "always_true"
    /\ new_list = old_list
    /\ Len(old_list) = MaxKey
    /\ pc = "done"
    /\ Len(emitted) = MaxKey

-----------------------------------------------------------------------------
(* Claim C18: what modified() reads off a Stats value (SpecStats) *)

\* the number of entries in the five buckets that record a change
Changes(s) ==
    Len(s.added) + Len(s.removed) + Len(s.updated) + Len(s.updated_bitrot)
        + Cardinality(DOMAIN s.moved)

\* C18: modified() is true exactly when one of added, removed, updated,
\* updated_bitrot and moved holds an entry; whatever unchanged holds and
\* whatever total is, the answer is the same.
C18_Modified ==
    /\ modified(stats) <=> Changes(stats) > 0
    /\ \A u \in {<<>>, <<PairOld>>}, t \in 0..MaxEvents :
          modified([stats EXCEPT !.unchanged = u, !.total = t]) = modified(stats)

\* the events are consumed and the move pass is done: one file is unchanged,
\* one has moved, nothing else has happened
C18_Witness ==
    /\ pc = "done"
    /\ NonEmpty(stats) = {"unchanged", "moved"}
    /\ stats.total > 0
    /\ modified(stats)

\* all the events were Unchanged
C18_WitnessUnchangedOnly ==
    /\ pc = "done"
    /\ NonEmpty(stats) = {"unchanged"}
    /\ stats.total = MaxEvents
    /\ ~modified(stats)

-----------------------------------------------------------------------------
(* Claim C19: iter_new on the Stats of a diff (SpecDiff) *)

\* the part of seq that starts after its first n elements and has m elements
Slice(seq, n, m) == [i \in 1..m |-> seq[n + i]]

\* C19: in whatever order the map moved is walked, iter_new yields the
\* entries of added, then those of unchanged, of updated, of updated_bitrot,
\* then the new side of every moved pair, each once and none besides; no
\* entry it yields has the key of an entry of removed; and, the Stats being
\* built from a diff, it yields total entries, one for every key of the new
\* list.
C19_IterNew ==
    \A mv \in KeyOrders(DOMAIN stats.moved) :
        LET y == iter_new(stats, mv)
            a == Len(stats.added)
            u == Len(stats.unchanged)
            p == Len(stats.updated)
            b == Len(stats.updated_bitrot)
            m == Cardinality(DOMAIN stats.moved)
        IN  /\ Len(y) = a + u + p + b + m
            /\ Slice(y, 0, a) = stats.added
            /\ Slice(y, a, u) = stats.unchanged
            /\ Slice(y, a + u, p) = stats.updated
            /\ Slice(y, a + u + p, b) = stats.updated_bitrot
            /\ {y[a + u + p + b + i] : i \in 1..m} = {stats.moved[k] : k \in DOMAIN stats.moved}
            /\ \A i, j \in DOMAIN y : i # j => y[i].norm_path # y[j].norm_path
            /\ \A i \in DOMAIN y, j \in DOMAIN stats.removed :
                  y[i].norm_path # stats.removed[j].norm_path
            /\ Len(y) = stats.total
            /\ IterEnded => {y[i].norm_path : i \in DOMAIN y} = KeysOf(new_list)

\* a diff has been collected in which one file has moved and one is unchanged
C19_Witness ==
    /\ pc = "done"
    /\ DOMAIN stats.moved # {}
    /\ stats.unchanged # <<>>
    /\ Len(iter_new(stats, CHOOSE mv \in KeyOrders(DOMAIN stats.moved) : TRUE)) = 2

-----------------------------------------------------------------------------
(* Claim C20: what update hashes (SpecCmd) *)

HashLineOf(rec, p) == CHOOSE h \in LinesFor(rec, p) : TRUE

\* C20: update_hash with force = false on an entry that has a hash returns
\* the entry as it is and does not open its file (which need not exist); and
\* an update that saves has hashed exactly the files whose length or
\* modification time is not the one the snapshot records for their path (the
\* files whose new-state entry has no hash): these go into the snapshot with
\* the hash of their content, every other file with the hash the snapshot had
\* for it.
C20_SelectiveHash ==
    [][(last'.cmd = "update" /\ last'.saved) =>
          /\ \A e \in StatEntries :
                ~update_hash_opens(e, FALSE) /\ update_hash(e, fs, FALSE) = e
          /\ last'.hashed = {p \in FilesPresent : NeedsHash(p)}
          /\ \A p \in FilesPresent :
                /\ Cardinality(LinesFor(hash_index', p)) = 1
                /\ HashLineOf(hash_index', p).hash =
                      IF NeedsHash(p) THEN HashOf(fs[p][1].content)
                      ELSE HashLineOf(hash_index, p).hash]_vars

\* update has saved a snapshot for which it hashed one file and left the other,
\* whose content is no longer what the snapshot's hash records, unread
C20_Witness ==
    /\ last.cmd = "update"
    /\ last.saved
    /\ Cardinality(last.hashed) = 1
    /\ \E p \in FilesPresent \ last.hashed :
          HashLineOf(hash_index, p).hash # HashOf(fs[p][1].content)

-----------------------------------------------------------------------------
(* Claims C21, C27: the glob filter (SpecFilter) *)

\* the path asked about lies under the root of the filter
UnderRoot(p) == Len(p) >= Len(Root) /\ \A i \in DOMAIN Root : p[i] = Root[i]

\* the characters of the part of p after the root
RelText(p) == PathText([i \in 1..(Len(p) - Len(Root)) |-> p[Len(Root) + i]])

\* the places of the rules of the filter whose pattern matches p
Matching(p) ==
    {i \in DOMAIN it.rules : matches_path(it.rules[i].pattern, RelText(p))}

\* C21: matches answers with the include flag of the first rule, in rule
\* order, whose pattern matches the path relative to the root, with
\* include_by_default when no rule matches, and with false for a path that is
\* not under the root, whatever the rules and the default.
C21_FirstMatch ==
    IsSome(cur) =>
        LET p == Unwrap(cur).path
            answer == Unwrap(cur).answer
        IN  IF ~UnderRoot(p) THEN answer = FALSE
            ELSE IF Matching(p) = {} THEN answer = it.include_by_default
            ELSE \E i \in Matching(p) :
                    /\ \A j \in Matching(p) : i <= j
                    /\ answer = it.rules[i].include

\* a filter whose first rule includes a path and whose second rule excludes
\* it has been asked about the path, the default being to exclude
C21_Witness ==
    /\ pc = "filter"
    /\ IsSome(cur)
    /\ Cardinality(Matching(Unwrap(cur).path)) = 2
    /\ it.rules[1].include
    /\ ~it.rules[2].include
    /\ ~it.include_by_default
    /\ Unwrap(cur).answer

\* the lines of the rule file that are neither blank nor start with "#"
RuleBearing ==
    SelectSeq(old_list, LAMBDA l :
        /\ \E i \in DOMAIN l : l[i] # " "
        /\ l[1] # "#")

\* the rule a line stands for: an include rule after "!", else an exclude rule
RuleOfLine(l) ==
    IF l[1] = "!" THEN [pattern |-> Tail(l), include |-> TRUE]
    ELSE [pattern |-> l, include |-> FALSE]

\* the hash record, the metadata record and the rule file at the root
Reserved == {Root \o <<"H">>, Root \o <<"M">>, Root \o <<"I">>}

\* C27: a filter loaded from a rule file has the three built-in exclude rules,
\* for the hash record, the metadata record and the rule file, before all the
\* rules of the file, one rule per line that is neither blank nor starts with
\* "#", in the order of the lines; the three files at the root are rejected
\* whatever the file holds, a "!" rule for them included.
C27_DefaultsFirst ==
    pc = "loaded" =>
        /\ Len(it.rules) = 3 + Len(RuleBearing)
        /\ it.rules[1] = [pattern |-> <<"H">>, include |-> FALSE]
        /\ it.rules[2] = [pattern |-> <<"M">>, include |-> FALSE]
        /\ it.rules[3] = [pattern |-> <<"I">>, include |-> FALSE]
        /\ \A i \in DOMAIN RuleBearing :
              it.rules[3 + i] = RuleOfLine(RuleBearing[i])
        /\ (IsSome(cur) /\ Unwrap(cur).path \in Reserved)
              => ~Unwrap(cur).answer

\* a rule file with a comment and a "!" rule for the hash record has been
\* loaded, and the filter asked about the hash record at the root
C27_Witness ==
    /\ pc = "loaded"
    /\ old_list = <<<<"#", "a">>, <<"!", "H">>>>
    /\ Len(it.rules) = 4
    /\ IsSome(cur)
    /\ Unwrap(cur).path = Root \o <<"H">>

\* a rule file with a blank line and a rule that includes everything has been
\* loaded, includes by default, and the filter asked about the rule file
C27_WitnessIncludeAll ==
    /\ pc = "loaded"
    /\ old_list = <<<<" ">>, <<"!", "*">>>>
    /\ it.include_by_default
    /\ IsSome(cur)
    /\ Unwrap(cur).path = Root \o <<"I">>

-----------------------------------------------------------------------------
(* Claim C22: the list of the scanner (SpecScan) *)

\* the regular files of the tree
RegularFiles == {p \in ScanPaths : IsSome(fs[p]) /\ Unwrap(fs[p]).kind = "file"}

\* the list holds one entry for each regular file and no other entry
OnePerFile ==
    /\ Len(emitted) = Cardinality(RegularFiles)
    /\ {emitted[i].path : i \in DOMAIN emitted} = RegularFiles

\* C22: for every directory tree the list of the scanner ascends by key, has
\* no two entries with the same key, and holds one entry for each regular
\* file that passes the filter and none for a directory or a node of another
\* kind.
C22_Original ==
    pc = "scanned" =>
        /\ \A i, j \in DOMAIN emitted :
              i < j => emitted[i].norm_path < emitted[j].norm_path
        /\ OnePerFile

\* what the scanner does keep: the list never descends and holds one entry
\* for each regular file, none for another node or for a record
C22_SortedOnePerFile ==
    pc = "scanned" =>
        /\ \A i, j \in DOMAIN emitted :
              i < j => emitted[i].norm_path <= emitted[j].norm_path
        /\ OnePerFile

\* a tree with the records, a directory and two regular files of one key has
\* been scanned
C22_Witness ==
    /\ pc = "scanned"
    /\ IsSome(hash_index)
    /\ IsSome(meta_index)
    /\ \E p \in ScanPaths : IsSome(fs[p]) /\ Unwrap(fs[p]).kind = "dir"
    /\ {0, 1} \subseteq RegularFiles
    /\ Len(emitted) = 2

-----------------------------------------------------------------------------
(* Claims C23, C28: the move post-pass (SpecStats) *)

\* the places of seq that hold an entry of hash h
WithHash(seq, h) == {i \in DOMAIN seq : seq[i].hash = h}

\* seq without its place i
Without(seq, i) ==
    [k \in 1..(Len(seq) - 1) |-> IF k < i THEN seq[k] ELSE seq[k + 1]]

\* the entries of hash h in seq, in order
OfHash(seq, h) == SelectSeq(seq, LAMBDA e : e.hash = h)

\* what the claim promises for hash h: one pair, the last removed entry with
\* the first added entry, the others left where they were
OnePair(h) ==
    LET i == CHOOSE x \in WithHash(stats.removed, h) :
                 \A y \in WithHash(stats.removed, h) : y <= x
        j == CHOOSE x \in WithHash(stats.added, h) :
                 \A y \in WithHash(stats.added, h) : x <= y
        P == stats.removed[i].path
    IN  /\ P \in DOMAIN stats'.moved
        /\ stats'.moved[P] = stats.added[j]
        /\ OfHash(stats'.removed, h) = OfHash(Without(stats.removed, i), h)
        /\ OfHash(stats'.added, h) = OfHash(Without(stats.added, j), h)
        /\ Cardinality({k \in DOMAIN stats'.moved : stats'.moved[k].hash = h}) = 1

\* no two removed entries have the same path
RemovedPathsDistinct ==
    \A i, j \in DOMAIN stats.removed :
        stats.removed[i].path = stats.removed[j].path => i = j

\* C23 as stated: when several removed entries and several added entries share
\* one hash, the post-pass pairs the last of these removed entries with the
\* first of these added entries and leaves every other one of them in removed
\* and in added, one move for the hash.
C23_Original ==
    [][Passed =>
          \A h \in Hashes :
              (/\ Cardinality(WithHash(stats.removed, h)) >= 2
               /\ Cardinality(WithHash(stats.added, h)) >= 2)
              => OnePair(h)]_vars

\* C23 (amended): when the removed entries have pairwise distinct paths and
\* some of them share one hash with some added entries, the post-pass pairs
\* the last of these removed entries with the first of these added entries
\* and leaves every other one of them in removed and in added, one move for
\* the hash.
C23_OnePairPerHash ==
    [][(Passed /\ RemovedPathsDistinct) =>
          \A h \in Hashes :
              (/\ WithHash(stats.removed, h) # {}
               /\ WithHash(stats.added, h) # {})
              => OnePair(h)]_vars

\* two removed entries at two paths and two added entries, all of one hash,
\* have gone through the post-pass: one move, one entry left on either side
C23_Witness ==
    /\ pc = "done"
    /\ Len(stats.removed) = 1
    /\ Len(stats.added) = 1
    /\ Cardinality(DOMAIN stats.moved) = 1
    /\ stats.removed[1].path \notin DOMAIN stats.moved
    /\ \A k \in DOMAIN stats.moved :
          /\ stats.moved[k].hash = stats.removed[1].hash
          /\ stats.moved[k].hash = stats.added[1].hash
          /\ stats.moved[k] # stats.added[1]

\* the targets of the moves, one for each key of the map
MovedTargets(m) == {m[k] : k \in DOMAIN m}

\* seq is what is left of full after taking some places out: the entries kept
\* are in the order they had
RECURSIVE IsSubsequence(_, _)
IsSubsequence(seq, full) ==
    IF seq = <<>> THEN TRUE
    ELSE IF full = <<>> THEN FALSE
    ELSE IF Head(seq) = Head(full) THEN IsSubsequence(Tail(seq), Tail(full))
    ELSE IsSubsequence(seq, Tail(full))

\* what the claim promises of one run of the post-pass
Conserved ==
    /\ Len(stats'.added) + Cardinality(DOMAIN stats'.moved) = Len(stats.added)
    /\ Len(stats'.removed) + Cardinality(DOMAIN stats'.moved) = Len(stats.removed)
    \* every removed entry the source of one move at most, every added entry
    \* the target of one move at most
    /\ \A k \in DOMAIN stats'.moved :
          /\ Cardinality({i \in DOMAIN stats.removed :
                             stats.removed[i].path = k}) = 1
          /\ \A k2 \in DOMAIN stats'.moved :
                stats'.moved[k] = stats'.moved[k2] => k = k2
    /\ IsSubsequence(stats'.added, stats.added)
    /\ IsSubsequence(stats'.removed, stats.removed)
    /\ stats'.unchanged = stats.unchanged
    /\ stats'.updated = stats.updated
    /\ stats'.updated_bitrot = stats.updated_bitrot

\* C28 as stated: the post-pass conserves entries: the entries left in added
\* and the moves are as many as the added entries before, the entries left in
\* removed and the moves as many as the removed entries before; a removed
\* entry is the source of one move at most, an added entry the target of one
\* at most; the entries left keep their order; unchanged, updated and
\* updated_bitrot are as before.
C28_Original == [][Passed => Conserved]_vars

\* C28 (amended): the same, for removed entries with pairwise distinct paths.
C28_Conserves == [][(Passed /\ RemovedPathsDistinct) => Conserved]_vars

\* the post-pass has found a move and left an entry in added and one in
\* removed
C28_Witness ==
    /\ pc = "done"
    /\ Cardinality(DOMAIN stats.moved) = 1
    /\ Len(stats.added) = 1
    /\ Len(stats.removed) = 1
    /\ stats.removed[1].path \notin DOMAIN stats.moved

\* the post-pass has found a move next to an unchanged and an updated entry
C28_WitnessOthers ==
    /\ pc = "done"
    /\ Cardinality(DOMAIN stats.moved) = 1
    /\ Len(stats.unchanged) = 1
    /\ Len(stats.updated) + Len(stats.updated_bitrot) = 1

-----------------------------------------------------------------------------
(* Claim C24: an Unchanged event in the aggregator (SpecStats) *)

\* a step that matched an Unchanged event
MatchedUnchanged == Matched /\ Unwrap(cur').kind = "UNCHANGED"

\* the step appends e to unchanged, counts it and leaves the other lists alone
AppendsUnchanged(e) ==
    /\ stats'.unchanged = Append(stats.unchanged, e)
    /\ stats'.total = stats.total + 1
    /\ stats'.added = stats.added
    /\ stats'.removed = stats.removed
    /\ stats'.updated = stats.updated
    /\ stats'.updated_bitrot = stats.updated_bitrot

\* C24 as stated: on an Unchanged(old,new) event the aggregator adds exactly
\* one entry to unchanged and increments total by 1, and the entry it retains
\* is the new side of the event.
C24_Original ==
    [][MatchedUnchanged => AppendsUnchanged(Unwrap(Unwrap(cur').new))]_vars

\* C24 (amended): on an Unchanged(old,new) event the aggregator adds exactly
\* one entry to unchanged and increments total by 1, and the entry it retains
\* is the old side of the event.
C24_RetainsOld ==
    [][MatchedUnchanged => AppendsUnchanged(Unwrap(Unwrap(cur').old))]_vars

\* an Unchanged event whose sides differ in hash has been matched: unchanged
\* holds its old side
C24_Witness ==
    /\ pc = "iter"
    /\ IsSome(cur)
    /\ Unwrap(cur).kind = "UNCHANGED"
    /\ Unwrap(Unwrap(cur).old).hash # Unwrap(Unwrap(cur).new).hash
    /\ stats.unchanged = <<Unwrap(Unwrap(cur).old)>>
    /\ stats.total = 1

-----------------------------------------------------------------------------
(* Claim C25: what the merge has read of its inputs (SpecDiff) *)

\* the number of events so far that have an old side, a new side
OldSides == Cardinality({i \in DOMAIN emitted : IsSome(emitted[i].old)})
NewSides == Cardinality({i \in DOMAIN emitted : IsSome(emitted[i].new)})

\* the iterator has been constructed
Constructed == pc \in {"iter", "moved", "done"}

\* the merge holds one element of each input at most: what it has read of an
\* input and not yet reported is what old_val, new_val holds
OneBuffered ==
    /\ it.old_pos - OldSides = (IF IsSome(it.old_val) THEN 1 ELSE 0)
    /\ it.new_pos - NewSides = (IF IsSome(it.new_val) THEN 1 ELSE 0)

\* C25 as stated: the merge does no work ahead of demand: after construction
\* it has consumed no element, after the k-th event it has consumed only the
\* elements that appear in the events 1..k, and it never holds more than the
\* current element of each input.
C25_Original ==
    Constructed =>
        /\ it.old_pos = OldSides
        /\ it.new_pos = NewSides
        /\ OneBuffered

\* C25 (amended): the merge reads one element ahead on each input: after
\* construction it has consumed the first element of each input that has one,
\* after the k-th event it has consumed the elements that appear in the
\* events 1..k and the one element that follows them on each input that has
\* more, and nothing further; it never holds more than this one element of
\* each input.
C25_OneAhead ==
    Constructed =>
        /\ it.old_pos = (IF OldSides < Len(old_list) THEN OldSides + 1 ELSE OldSides)
        /\ it.new_pos = (IF NewSides < Len(new_list) THEN NewSides + 1 ELSE NewSides)
        /\ it.old_val = (IF OldSides < Len(old_list)
                         THEN Some(old_list[OldSides + 1]) ELSE None)
        /\ it.new_val = (IF NewSides < Len(new_list)
                         THEN Some(new_list[NewSides + 1]) ELSE None)
        /\ OneBuffered

\* the iterator has just been constructed on two lists that are not empty:
\* no event yet, one element of each input read
C25_Witness ==
    /\ pc = "iter"
    /\ emitted = <<>>
    /\ Len(old_list) >= 2
    /\ Len(new_list) >= 2
    /\ it.old_pos = 1
    /\ it.new_pos = 1

\* two events have been produced and the third element of one input is held
C25_WitnessSecondEvent ==
    /\ pc = "iter"
    /\ Len(emitted) = 2
    /\ it.old_pos = 3
    /\ OldSides = 2

-----------------------------------------------------------------------------
(* Claim C26: the bytes hash_file reports and hashes (SpecHash) *)

RECURSIVE SumOf(_)
SumOf(seq) == IF seq = <<>> THEN 0 ELSE Head(seq) + SumOf(Tail(seq))

\* the sizes reported add up to the length of the file, and the hasher has
\* been given every byte of it
WholeFile ==
    /\ SumOf(new_list) = Len(old_list)
    /\ emitted = old_list

\* C26: when a hash is computed, the byte counts given to the progress
\* callback add up to the length of the file and the digest covers every byte
\* of it, for a file of any size and however the reads are split.
C26_Original == pc = "done" => WholeFile

\* what the loop does keep: when no read returns less than the buffer takes
\* and the file still has, the counts add up and every byte is hashed
C26_WholeReads == (pc = "done" /\ ~it.short) => WholeFile

\* a file of two buffers and a byte has been hashed by reads that were never
\* short
C26_Witness ==
    /\ pc = "done"
    /\ ~it.short
    /\ Len(old_list) = 2 * BufLen + 1
    /\ Len(new_list) = 3

\* a file whose length is a multiple of the buffer has been hashed
C26_WitnessMultiple ==
    /\ pc = "done"
    /\ ~it.short
    /\ Len(old_list) = 2 * BufLen
    /\ new_list[Len(new_list)] = 0

-----------------------------------------------------------------------------
(* Claim C29: update finds no move (SpecCmd) *)

\* the number of entries of seq at path p
CountAt(seq, p) == Cardinality({i \in DOMAIN seq : seq[i].path = p})

\* the paths the snapshot records and the directory no longer has, and the
\* files of the directory the snapshot does not record
Gone == {p \in Paths : LinesFor(hash_index, p) # {} /\ fs[p] = None}
Fresh == {p \in FilesPresent : LinesFor(hash_index, p) = {}}

\* C29: in update, where the scanned entries have no hash and the entries of
\* the snapshot have one, the move post-pass matches nothing: moved is empty,
\* and a file that was renamed shows as one added entry at its new path and
\* one removed entry at its old path.
C29_NoMoveInUpdate ==
    [][(last'.cmd = "update" /\ last'.collected) =>
          LET st == Unwrap(update(fs, hash_index, meta_index, last'.arg).stats)
          IN  /\ DOMAIN st.moved = {}
              /\ "moved" \notin last'.nonempty
              /\ \A p \in Paths :
                    /\ CountAt(st.removed, p) = (IF p \in Gone THEN 1 ELSE 0)
                    /\ CountAt(st.added, p) = (IF p \in Fresh THEN 1 ELSE 0)
              /\ \A i \in DOMAIN st.added : st.added[i].hash = ""
              /\ \A i \in DOMAIN st.removed : st.removed[i].hash # ""]_vars

\* update has compared the directory with a snapshot after a file was renamed:
\* the snapshot has the file at a path the directory no longer has, with the
\* hash, the length and the modification time of a file the directory has at
\* a path the snapshot does not know
C29_Witness ==
    /\ last.cmd = "update"
    /\ last.collected
    /\ ~last.saved
    /\ {"added", "removed"} \subseteq last.nonempty
    /\ \E p \in Gone, q \in Fresh :
          /\ \E h \in LinesFor(hash_index, p) : h.hash = HashOf(fs[q][1].content)
          /\ \E m \in LinesFor(meta_index, p) :
                /\ m.len = LenOf(fs[q][1].content)
                /\ m.modified = fs[q][1].mtime

-----------------------------------------------------------------------------
(* Claim C30: the merge on any two lists (SpecAny) *)

\* the old sides, the new sides of the events, in the order of the events
OldSideOf(events) ==
    LET with == SelectSeq(events, LAMBDA e : IsSome(e.old))
    IN  [i \in DOMAIN with |-> Unwrap(with[i].old)]
NewSideOf(events) ==
    LET with == SelectSeq(events, LAMBDA e : IsSome(e.new))
    IN  [i \in DOMAIN with |-> Unwrap(with[i].new)]

\* seq is the beginning of full
IsPrefix(seq, full) ==
    /\ Len(seq) <= Len(full)
    /\ \A i \in DOMAIN seq : seq[i] = full[i]

\* C30: on any two finite lists, sorted or not and with or without repeated
\* keys, the events are never more than the elements of the two lists, every
\* event reporting the next element of old, of new or of both that no event
\* has reported yet; at the end every element of old has been
\* the old side of exactly one event and every element of new the new side of
\* exactly one; and a call after the end reports the end again and changes
\* nothing.
C30_EndsAndCovers ==
    [][/\ Len(emitted') <= Len(old_list) + Len(new_list)
       /\ IsPrefix(OldSideOf(emitted'), old_list)
       /\ IsPrefix(NewSideOf(emitted'), new_list)
       /\ pc' \in {"moved", "ended"} =>
             /\ OldSideOf(emitted') = old_list
             /\ NewSideOf(emitted') = new_list
       /\ pc \in {"moved", "ended"} =>
             /\ cur' = None
             /\ emitted' = emitted
             /\ it' = it]_vars

\* the merge of a list that is not sorted and repeats a key with a list that
\* repeats a key has ended and been asked again
C30_Witness ==
    /\ pc = "ended"
    /\ Len(old_list) = 3
    /\ old_list[1].norm_path > old_list[2].norm_path
    /\ old_list[1].norm_path = old_list[3].norm_path
    /\ Len(new_list) >= 2
    /\ new_list[1].norm_path = new_list[2].norm_path
    /\ Len(emitted) >= 3

====
